---- MODULE Spec2Model ----
(***************************************************************************)
(* Model of the synthetic data engine of jf-digital-assets-intelligence:    *)
(*   - SyntheticDataProvider (getSeries / getLatest / getMetadata)          *)
(*   - generateSyntheticEvents / createEvent (event scan, backfill, sort)   *)
(*   - SyntheticGenerator (generateRegimes, getRegimeAtDate,                *)
(*     generateDailyDates, the series generators)                           *)
(*   - the provider factory (createDataProvider / getDataProvider) and the  *)
(*     order of the generator calls of generateAllData                      *)
(*                                                                          *)
(* Time.  A JavaScript Date is a whole number of milliseconds.  The model   *)
(* counts time in ticks and a calendar day is DayTicks ticks long, so that  *)
(* instants with different times of day on the same calendar day exist.     *)
(* Arrays are TLA+ sequences; JavaScript indices are 0-based, so element k  *)
(* of a JavaScript array a is a[k + 1] here (operator At).                  *)
(***************************************************************************)
EXTENDS Integers, Sequences, FiniteSets, TLC

VARIABLES
    \* ---- SyntheticDataProvider fields and the last query's outcome
    dailyDates,        \* this.dailyDates: the date axis (ticks)
    cachedData,        \* this.cachedData: metric id -> array of values
    result,            \* outcome of the last query call
    \* ---- generateSyntheticEvents: parameters and locals
    btcPrices, volatility, leverage, etfFlows, stablecoinSupply,
    randomDraws,       \* the value Math.random() returns on each scan day
    events,            \* const events: Event[]
    lastEventIndex,    \* let lastEventIndex
    scanIdx,           \* the forEach index i of the scan loop
    missingEvents,     \* the sliced missingEvents array of the backfill
    backfillIdx,       \* the forEach index idx of the backfill loop
    \* ---- SyntheticGenerator fields and generateRegimes locals
    startDate, endDate,
    regimes,           \* const regimes / this.regimes
    currentDate,       \* let currentDate (the cursor of generateRegimes)
    generatedDates,    \* last value returned by generateDailyDates
    lookup,            \* last getRegimeAtDate call: argument and result
    \* ---- the provider factory (data/index.ts)
    dataMode,          \* import.meta.env.VITE_DATA_MODE
    providerInstance,  \* let providerInstance: the provider the factory made
    constructions,     \* how many times createDataProvider has been invoked
    \* ---- control
    pc

providerVars == <<dailyDates, cachedData, result>>
eventVars == <<btcPrices, volatility, leverage, etfFlows, stablecoinSupply,
               randomDraws, events, lastEventIndex, scanIdx, missingEvents, backfillIdx>>
regimeVars == <<startDate, endDate, regimes, currentDate, generatedDates, lookup>>
factoryVars == <<dataMode, providerInstance, constructions>>
vars == <<providerVars, eventVars, regimeVars, factoryVars, pc>>

-----------------------------------------------------------------------------
(* Bounds of the model *)

DayTicks == 2          \* ticks per calendar day (stands for 86 400 000 ms)
MaxAxisLen == 3        \* longest date axis of the provider specification
MaxValue == 1          \* cached values are drawn from 0..MaxValue
MaxDays == 200         \* longest date axis handed to generateSyntheticEvents
MaxWindowDays == 50    \* latest endDate of a generator, in days after day 0

-----------------------------------------------------------------------------
(* JavaScript helpers *)

Min(a, b) == IF a < b THEN a ELSE b
Max(a, b) == IF a > b THEN a ELSE b

\* a[k] for a JavaScript array a: undefined outside 0..length-1
Undefined == [undefined |-> TRUE]
InRange(a, k) == k >= 0 /\ k < Len(a)
At(a, k) == IF InRange(a, k) THEN a[k + 1] ELSE Undefined
\* dailyDates[k] handed on as a Date: the element, or undefined
DateAt(dates, k) == IF InRange(dates, k) THEN [defined |-> TRUE, t |-> dates[k + 1]]
                    ELSE [defined |-> FALSE, t |-> 0]

\* Array.prototype.slice(from, to) for 0 <= from; to is exclusive
Slice(a, from, to) ==
    LET hi == Min(to, Len(a))
    IN  IF from >= hi THEN << >>
        ELSE [k \in 1..(hi - from) |-> a[from + k]]

\* Date.prototype.toISOString and new Date(string).  An ISO string carries
\* the instant with millisecond precision, so parsing it gives the instant
\* back; any other non-empty string parses to an Invalid Date (NaN time),
\* which compares false with everything.
toISOString(t) == [kind |-> "iso", t |-> t]
NoDate == [kind |-> "none", t |-> 0]           \* parameter omitted (or '')
BadDate == [kind |-> "bad", t |-> 0]           \* e.g. 'not-a-date'
newDate(s) == IF s.kind = "iso" THEN [valid |-> TRUE, t |-> s.t]
              ELSE [valid |-> FALSE, t |-> 0]
DateGE(d, p) == p.valid /\ d >= p.t            \* d >= p
DateGT(d, p) == p.valid /\ d > p.t             \* d > p
\* a plausible slip: the end bound of getEvents is exclusive
DateLEStrict(d, p) == p.valid /\ d < p.t
DateLE(d, p) == p.valid /\ d <= p.t            \* d <= p

-----------------------------------------------------------------------------
(* SyntheticDataProvider *)

\* the keys set into this.cachedData by generateAllData, in order
CachedKeys ==
    << "btc_price", "eth_price", "total_crypto_market_cap", "volatility_proxy",
       "market_drawdown_percent", "stablecoin_total_supply",
       "stablecoin_net_issuance_30d", "stablecoin_velocity_proxy",
       "on_chain_transfer_volume", "active_addresses_proxy", "network_fee_proxy",
       "btc_etf_net_flows", "btc_etf_cumulative_flows", "etf_flow_momentum_score",
       "futures_open_interest", "leverage_ratio_proxy", "funding_rate_proxy",
       "liquidation_volume_proxy", "risk_regime", "crypto_liquidity_stress_index" >>

CachedKeySet == {CachedKeys[k] : k \in 1..Len(CachedKeys)}
KeyIndex(m) == CHOOSE k \in 1..Len(CachedKeys) : CachedKeys[k] = m

\* the object literal of getMetadata: own properties
metadataMap ==
    [m \in CachedKeySet |->
      CASE m = "btc_price" -> [label |-> "BTC Price", unit |-> "USD",
             notes |-> "Bitcoin spot price with regime-based dynamics"]
        [] m = "eth_price" -> [label |-> "ETH Price", unit |-> "USD",
             notes |-> "Ethereum spot price correlated to BTC"]
        [] m = "total_crypto_market_cap" -> [label |-> "Total Crypto Market Cap",
             unit |-> "Trillions USD",
             notes |-> "Aggregate market capitalization of digital assets"]
        [] m = "volatility_proxy" -> [label |-> "Volatility Proxy",
             unit |-> "% Annualized", notes |-> "30-day realized volatility"]
        [] m = "market_drawdown_percent" -> [label |-> "Market Drawdown",
             unit |-> "%", notes |-> "Drawdown from peak price"]
        [] m = "stablecoin_total_supply" -> [label |-> "Stablecoin Total Supply",
             unit |-> "Billions USD",
             notes |-> "Aggregate stablecoin supply as dollar rail proxy"]
        [] m = "stablecoin_net_issuance_30d" ->
             [label |-> "Stablecoin Net Issuance (30d)", unit |-> "Billions USD",
              notes |-> "30-day change in stablecoin supply"]
        [] m = "stablecoin_velocity_proxy" -> [label |-> "Stablecoin Velocity Proxy",
             unit |-> "Index",
             notes |-> "Normalized velocity of stablecoin circulation"]
        [] m = "on_chain_transfer_volume" -> [label |-> "On-Chain Transfer Volume",
             unit |-> "Billions USD", notes |-> "Daily on-chain transaction volume"]
        [] m = "active_addresses_proxy" -> [label |-> "Active Addresses Proxy",
             unit |-> "Index", notes |-> "Normalized active address count"]
        [] m = "network_fee_proxy" -> [label |-> "Network Fee Proxy",
             unit |-> "Millions USD",
             notes |-> "Daily network fees as congestion indicator"]
        [] m = "btc_etf_net_flows" -> [label |-> "BTC ETF Net Flows",
             unit |-> "Millions USD", notes |-> "Daily net institutional ETF flows"]
        [] m = "btc_etf_cumulative_flows" -> [label |-> "BTC ETF Cumulative Flows",
             unit |-> "Billions USD",
             notes |-> "Cumulative institutional ETF positioning"]
        [] m = "etf_flow_momentum_score" -> [label |-> "ETF Flow Momentum Score",
             unit |-> "Score 0-100", notes |-> "20-day flow momentum indicator"]
        [] m = "futures_open_interest" -> [label |-> "Futures Open Interest",
             unit |-> "Billions USD", notes |-> "Aggregate derivatives open interest"]
        [] m = "leverage_ratio_proxy" -> [label |-> "Leverage Ratio Proxy",
             unit |-> "%", notes |-> "Open interest as % of market cap"]
        [] m = "funding_rate_proxy" -> [label |-> "Funding Rate Proxy",
             unit |-> "% APR", notes |-> "Perpetual futures funding rate"]
        [] m = "liquidation_volume_proxy" -> [label |-> "Liquidation Volume Proxy",
             unit |-> "Billions USD", notes |-> "Estimated daily liquidation volume"]
        [] m = "risk_regime" -> [label |-> "Risk Regime", unit |-> "Categorical",
             notes |-> "Market risk classification: risk_on, neutral, risk_off"]
        [] OTHER -> [label |-> "Crypto Liquidity Stress Index",
             unit |-> "Score 0-100",
             notes |-> "Composite stress indicator from volatility, leverage, and volume"]]

\* metadataMap is a plain object: metadataMap[id] also finds the properties
\* every object inherits from Object.prototype, all of them truthy values
\* (functions, or the prototype object itself for __proto__), none of them a
\* descriptor.
ObjectPrototypeKeys ==
    { "constructor", "toString", "toLocaleString", "valueOf", "hasOwnProperty",
      "isPrototypeOf", "propertyIsEnumerable", "__proto__",
      "__defineGetter__", "__defineSetter__", "__lookupGetter__",
      "__lookupSetter__" }

\* getMetadata(metricId): metadataMap[metricId] || { label: metricId, ... }
getMetadata(metricId) ==
    IF metricId \in CachedKeySet THEN
        [status |-> "ok", descriptor |-> TRUE, inherited |-> "",
         label |-> metadataMap[metricId].label,
         unit |-> metadataMap[metricId].unit,
         notes |-> metadataMap[metricId].notes]
    ELSE IF metricId \in ObjectPrototypeKeys THEN
        \* the inherited member of Object.prototype, which has no own label,
        \* unit or notes
        [status |-> "ok", descriptor |-> FALSE, inherited |-> metricId,
         label |-> "", unit |-> "", notes |-> ""]
    ELSE
        [status |-> "ok", descriptor |-> TRUE, inherited |-> "",
         label |-> metricId, unit |-> "", notes |-> ""]

\* this.cachedData.get(metricId) on the Map: own entries only
HasMetric(cache, metricId) == metricId \in DOMAIN cache

\* Array.prototype.findIndex: the least index whose element passes the test,
\* -1 when none does
LeastOf(S) == IF S = {} THEN -1 ELSE CHOOSE k \in S : \A j \in S : k <= j
findIndexGE(dates, p) ==          \* dates.findIndex(d => d >= p)
    LeastOf({k \in 0..(Len(dates) - 1) : DateGE(dates[k + 1], p)})
findIndexGT(dates, p) ==          \* dates.findIndex(d => d > p)
    LeastOf({k \in 0..(Len(dates) - 1) : DateGT(dates[k + 1], p)})

\* a plausible slip: the start index skips a date equal to startDate
StartIdxStrict(dates, startParam) ==
    IF startParam.kind # "none" THEN
        LET found == findIndexGT(dates, newDate(startParam))
        IN  IF found = -1 THEN 0 ELSE found
    ELSE 0

\* the start index of getSeries (lines 109-116)
StartIdx(dates, startParam) ==
    IF startParam.kind # "none" THEN
        LET found == findIndexGE(dates, newDate(startParam))
        IN  IF found = -1 THEN 0 ELSE found
    ELSE 0

\* the end index of getSeries (lines 110, 118-122)
EndIdx(dates, endParam) ==
    IF endParam.kind # "none" THEN
        LET found == findIndexGT(dates, newDate(endParam))
        IN  IF found = -1 THEN Len(dates) - 1 ELSE found
    ELSE Len(dates) - 1

\* getSeries(metricId, {startDate, endDate})
getSeries(dates, cache, metricId, startParam, endParam) ==
    LET metadata == getMetadata(metricId)
    IN  IF ~HasMetric(cache, metricId) THEN
            [status |-> "threw", error |-> "Metric not found"]
        ELSE
            LET values == cache[metricId]
                startIdx == StartIdx(dates, startParam)
                endIdx == EndIdx(dates, endParam)
                sliced == Slice(dates, startIdx, endIdx + 1)
                observations ==
                    [k \in 1..Len(sliced) |->
                        [date |-> toISOString(sliced[k]),
                         value |-> At(values, startIdx + (k - 1))]]
            IN  [status |-> "ok",
                 metric_id |-> metricId,
                 label |-> IF metadata.label # "" THEN metadata.label ELSE metricId,
                 unit |-> metadata.unit,
                 frequency |-> "daily",
                 observations |-> observations,
                 source_type |-> "synthetic",
                 notes |-> metadata.notes]

\* a plausible slip: getLatest reads the first cached value
getLatestFirst(cache, metricId, params) ==
    IF ~HasMetric(cache, metricId) THEN
        [status |-> "threw", error |-> "Metric not found"]
    ELSE
        LET values == cache[metricId]
        IN  [status |-> "ok", value |-> At(values, 0)]

\* getLatest(metricId, params): params (the asset) is not read
getLatest(cache, metricId, params) ==
    IF ~HasMetric(cache, metricId) THEN
        [status |-> "threw", error |-> "Metric not found"]
    ELSE
        LET values == cache[metricId]
        IN  [status |-> "ok", value |-> At(values, Len(values) - 1)]

-----------------------------------------------------------------------------
(* Math.random() *)

\* A draw of Math.random() lies in [0, 1).  The model counts it in
\* ten-thousandths, and draws the values next to every threshold the code
\* compares a draw with.
UniformDraws ==
    { 0, 19, 20, 999, 1000, 1499, 1500, 2999, 3000, 3499, 3500, 3999, 4000,
      5000, 5001, 6999, 7000, 9999 }
\* r < num/den and r > num/den for a draw r
DrawBelow(r, num, den) == r * den < num * 10000
DrawAbove(r, num, den) == r * den > num * 10000

-----------------------------------------------------------------------------
(* events: EVENT_DEFINITIONS, createEvent, generateSyntheticEvents *)

EVENT_DEFINITIONS ==
    << [event_id |-> "etf_inflow_surge", label |-> "ETF Inflow Surge",
        category |-> "market", severity |-> 3,
        description |-> "Institutional ETF inflows accelerate, driving sustained buying pressure across spot and derivatives markets."],
       [event_id |-> "leverage_build_up", label |-> "Leverage Build-Up",
        category |-> "microstructure", severity |-> 4,
        description |-> "Derivatives open interest and funding rates climb, indicating excessive leverage accumulation in the system."],
       [event_id |-> "forced_deleveraging", label |-> "Forced Deleveraging",
        category |-> "liquidity", severity |-> 5,
        description |-> "Cascading liquidations trigger violent deleveraging, widening spreads and fragmenting liquidity across venues."],
       [event_id |-> "stablecoin_supply_jump", label |-> "Stablecoin Supply Jump",
        category |-> "liquidity", severity |-> 2,
        description |-> "Rapid stablecoin issuance signals capital inflows and expanding dollar-denominated liquidity rails."],
       [event_id |-> "liquidity_drought", label |-> "Liquidity Drought",
        category |-> "liquidity", severity |-> 4,
        description |-> "On-chain volume and active addresses decline sharply, network fees collapse, indicating participant exodus."],
       [event_id |-> "regulatory_shock", label |-> "Regulatory Shock",
        category |-> "regulation", severity |-> 5,
        description |-> "Unexpected regulatory action creates uncertainty, triggering risk-off positioning and capital flight."],
       [event_id |-> "macro_risk_off", label |-> "Macro Risk-Off",
        category |-> "policy", severity |-> 4,
        description |-> "Broader macro risk-off regime compresses crypto correlations to traditional risk assets."],
       [event_id |-> "policy_pivot_rally", label |-> "Policy Pivot Rally",
        category |-> "policy", severity |-> 3,
        description |-> "Central bank policy pivot drives liquidity expansion, benefiting digital assets as duration proxies."],
       [event_id |-> "exchange_liquidity_crisis", label |-> "Exchange Liquidity Crisis",
        category |-> "microstructure", severity |-> 5,
        description |-> "Major exchange faces solvency concerns, fragmenting liquidity and spiking basis between venues."],
       [event_id |-> "institutional_capitulation", label |-> "Institutional Capitulation",
        category |-> "market", severity |-> 4,
        description |-> "Large-scale institutional redemptions accelerate drawdown, marking potential regime shift."] >>

\* EVENT_DEFINITIONS.find(d => d.event_id === eventId): index, 0 when absent
FindDefinition(eventId) ==
    LET S == {k \in 1..Len(EVENT_DEFINITIONS) : EVENT_DEFINITIONS[k].event_id = eventId}
    IN  IF S = {} THEN 0 ELSE CHOOSE k \in S : \A j \in S : k <= j

\* a plausible slip: the severity is taken from the neighbouring definition
createEventShifted(eventId, date) ==
    LET k == FindDefinition(eventId)
    IN  IF k = 0 THEN [status |-> "threw", error |-> "Event definition not found"]
        ELSE IF ~date.defined THEN [status |-> "threw", error |-> "TypeError"]
        ELSE [status |-> "ok",
              event |-> [event_id |-> EVENT_DEFINITIONS[k].event_id,
                         label |-> EVENT_DEFINITIONS[k].label,
                         date |-> toISOString(date.t),
                         category |-> EVENT_DEFINITIONS[k].category,
                         severity |-> EVENT_DEFINITIONS[(k % Len(EVENT_DEFINITIONS)) + 1].severity,
                         description |-> EVENT_DEFINITIONS[k].description]]

\* createEvent(eventId, date).  date is undefined when the caller read it
\* past the end of the date axis; date.toISOString() then throws a TypeError.
createEvent(eventId, date) ==
    LET k == FindDefinition(eventId)
    IN  IF k = 0 THEN [status |-> "threw", error |-> "Event definition not found"]
        ELSE IF ~date.defined THEN [status |-> "threw", error |-> "TypeError"]
        ELSE [status |-> "ok",
              event |-> [event_id |-> EVENT_DEFINITIONS[k].event_id,
                         label |-> EVENT_DEFINITIONS[k].label,
                         date |-> toISOString(date.t),
                         category |-> EVENT_DEFINITIONS[k].category,
                         severity |-> EVENT_DEFINITIONS[k].severity,
                         description |-> EVENT_DEFINITIONS[k].description]]

\* events.filter(e => e.event_id === id).length
CountOf(evs, id) == Cardinality({k \in 1..Len(evs) : evs[k].event_id = id})

\* etfFlows.slice(Math.max(0, i - 10), i).reduce((a, b) => a + b, 0)
RECURSIVE SumRange(_, _, _)
SumRange(a, from, to) ==
    IF from >= to THEN 0 ELSE a[from + 1] + SumRange(a, from + 1, to)
recentETFFlows(flows, i) == SumRange(flows, Max(0, i - 10), i)

\* priceChange = (btcPrices[i] / btcPrices[i - 30] - 1) * 100, compared with a
\* threshold c.  Prices are positive, so priceChange < c exactly when
\* 100 * (p[i] - p[i-30]) < c * p[i-30]; the input series below never put
\* priceChange exactly on a threshold, where floating point could differ.
priceChangeBelow(prices, i, c) ==
    100 * (prices[i + 1] - prices[i - 30 + 1]) < c * prices[i - 30 + 1]
priceChangeAbove(prices, i, c) ==
    100 * (prices[i + 1] - prices[i - 30 + 1]) > c * prices[i - 30 + 1]

\* stableSupplyChange = i > 30 ? stablecoinSupply[i] - stablecoinSupply[i - 30] : 0
stableSupplyChange(supply, i) ==
    IF i > 30 THEN supply[i + 1] - supply[i - 30 + 1] ELSE 0

\* a plausible slip: the spacing test lets a day 14 days after the cursor pass
SkipDayLoose(i, last) == i < 30 \/ i - last < 14

\* if (i < 30 || i - lastEventIndex < 15) return;
SkipDay(i, last) == i < 30 \/ i - last < 15

\* the event ids of the eight rules of the scan, in the order of the
\* if / else-if chain (lines 391, 397, 403, 409, 415, 421, 427, 433)
RuleIds ==
    << "etf_inflow_surge", "leverage_build_up", "forced_deleveraging",
       "stablecoin_supply_jump", "liquidity_drought", "regulatory_shock",
       "macro_risk_off", "policy_pivot_rally" >>

\* the full condition of rule k of the scan on day i, taken on its own: the
\* test between the parentheses of the k-th if of the chain
RuleHolds(k, i, last, evs, rand) ==
    LET volChange == volatility[i + 1] - volatility[i - 1 + 1]
        leverageLevel == leverage[i + 1]
        supplyChange == stableSupplyChange(stablecoinSupply, i)
    IN  CASE k = 1 -> recentETFFlows(etfFlows, i) > 1500
                       /\ CountOf(evs, "etf_inflow_surge") = 0
          [] k = 2 -> leverageLevel > 20 /\ volChange < 5
                       /\ CountOf(evs, "leverage_build_up") < 2
          [] k = 3 -> priceChangeBelow(btcPrices, i, -15) /\ leverageLevel < 13
                       /\ i > last + 20
          [] k = 4 -> supplyChange > 8 /\ CountOf(evs, "stablecoin_supply_jump") < 2
          [] k = 5 -> priceChangeBelow(btcPrices, i, -10) /\ supplyChange < -5
                       /\ CountOf(evs, "liquidity_drought") < 2
          [] k = 6 -> DrawBelow(rand, 2, 1000) /\ i > last + 30
                       /\ CountOf(evs, "regulatory_shock") = 0
          [] k = 7 -> priceChangeBelow(btcPrices, i, -20) /\ volatility[i + 1] > 80
                       /\ CountOf(evs, "macro_risk_off") < 2
          [] k = 8 -> priceChangeAbove(btcPrices, i, 20) /\ i > 180
                       /\ CountOf(evs, "policy_pivot_rally") < 2

\* a plausible slip: the leverage rule is tested before the ETF rule
RuleChainLeverageFirst(i, last, evs, rand) ==
    IF RuleHolds(2, i, last, evs, rand) THEN RuleIds[2]
    ELSE IF RuleHolds(1, i, last, evs, rand) THEN RuleIds[1]
    ELSE IF RuleHolds(3, i, last, evs, rand) THEN RuleIds[3]
    ELSE IF RuleHolds(4, i, last, evs, rand) THEN RuleIds[4]
    ELSE IF RuleHolds(5, i, last, evs, rand) THEN RuleIds[5]
    ELSE IF RuleHolds(6, i, last, evs, rand) THEN RuleIds[6]
    ELSE IF RuleHolds(7, i, last, evs, rand) THEN RuleIds[7]
    ELSE IF RuleHolds(8, i, last, evs, rand) THEN RuleIds[8]
    ELSE ""

\* a plausible slip: the cap of leverage_build_up is tested with <= 2
RuleChainCapInclusive(i, last, evs, rand) ==
    IF RuleHolds(1, i, last, evs, rand) THEN RuleIds[1]
    ELSE IF leverage[i + 1] > 20 /\ volatility[i + 1] - volatility[i - 1 + 1] < 5
            /\ CountOf(evs, "leverage_build_up") <= 2 THEN RuleIds[2]
    ELSE IF RuleHolds(3, i, last, evs, rand) THEN RuleIds[3]
    ELSE IF RuleHolds(4, i, last, evs, rand) THEN RuleIds[4]
    ELSE IF RuleHolds(5, i, last, evs, rand) THEN RuleIds[5]
    ELSE IF RuleHolds(6, i, last, evs, rand) THEN RuleIds[6]
    ELSE IF RuleHolds(7, i, last, evs, rand) THEN RuleIds[7]
    ELSE IF RuleHolds(8, i, last, evs, rand) THEN RuleIds[8]
    ELSE ""

\* a plausible slip: forced_deleveraging is allowed on the 20th day after the
\* last event
RuleChainTwentyInclusive(i, last, evs, rand) ==
    IF RuleHolds(1, i, last, evs, rand) THEN RuleIds[1]
    ELSE IF RuleHolds(2, i, last, evs, rand) THEN RuleIds[2]
    ELSE IF priceChangeBelow(btcPrices, i, -15) /\ leverage[i + 1] < 13
            /\ i >= last + 20 THEN RuleIds[3]
    ELSE IF RuleHolds(4, i, last, evs, rand) THEN RuleIds[4]
    ELSE IF RuleHolds(5, i, last, evs, rand) THEN RuleIds[5]
    ELSE IF RuleHolds(6, i, last, evs, rand) THEN RuleIds[6]
    ELSE IF RuleHolds(7, i, last, evs, rand) THEN RuleIds[7]
    ELSE IF RuleHolds(8, i, last, evs, rand) THEN RuleIds[8]
    ELSE ""

\* the if / else-if chain of the scan (lines 391-437) on day i: the id of the
\* event to emit, "" when no rule fires.  rand is the value Math.random()
\* returns on that day; the code calls it only when rules 1-5 have failed.
RuleChain(i, last, evs, rand) ==
    LET volChange == volatility[i + 1] - volatility[i - 1 + 1]
        leverageLevel == leverage[i + 1]
        supplyChange == stableSupplyChange(stablecoinSupply, i)
    IN  IF recentETFFlows(etfFlows, i) > 1500 /\ CountOf(evs, "etf_inflow_surge") = 0
          THEN "etf_inflow_surge"
        ELSE IF leverageLevel > 20 /\ volChange < 5 /\ CountOf(evs, "leverage_build_up") < 2
          THEN "leverage_build_up"
        ELSE IF priceChangeBelow(btcPrices, i, -15) /\ leverageLevel < 13 /\ i > last + 20
          THEN "forced_deleveraging"
        ELSE IF supplyChange > 8 /\ CountOf(evs, "stablecoin_supply_jump") < 2
          THEN "stablecoin_supply_jump"
        ELSE IF priceChangeBelow(btcPrices, i, -10) /\ supplyChange < -5
                /\ CountOf(evs, "liquidity_drought") < 2
          THEN "liquidity_drought"
        ELSE IF DrawBelow(rand, 2, 1000) /\ i > last + 30
                /\ CountOf(evs, "regulatory_shock") = 0
          THEN "regulatory_shock"
        ELSE IF priceChangeBelow(btcPrices, i, -20) /\ volatility[i + 1] > 80
                /\ CountOf(evs, "macro_risk_off") < 2
          THEN "macro_risk_off"
        ELSE IF priceChangeAbove(btcPrices, i, 20) /\ i > 180
                /\ CountOf(evs, "policy_pivot_rally") < 2
          THEN "policy_pivot_rally"
        ELSE ""

\* new Date(e.date).getTime() of an event
EventTime(e) == newDate(e.date).t

\* a plausible slip: the comparator is reversed (b before a)
RECURSIVE SortByDateReversed(_)
SortByDateReversed(evs) ==
    IF Len(evs) <= 1 THEN evs
    ELSE LET rest == SortByDateReversed(Tail(evs))
             e == Head(evs)
             before == {k \in 1..Len(rest) : EventTime(rest[k]) > EventTime(e)}
             n == Cardinality(before)
         IN  SubSeq(rest, 1, n) \o <<e>> \o SubSeq(rest, n + 1, Len(rest))

\* events.sort((a, b) => new Date(a.date).getTime() - new Date(b.date).getTime()):
\* a stable sort, ascending by time (insertion of the head into the sorted
\* tail, before every element with a later or equal time)
RECURSIVE SortByDate(_)
SortByDate(evs) ==
    IF Len(evs) <= 1 THEN evs
    ELSE LET rest == SortByDate(Tail(evs))
             e == Head(evs)
             before == {k \in 1..Len(rest) : EventTime(rest[k]) < EventTime(e)}
             n == Cardinality(before)
         IN  SubSeq(rest, 1, n) \o <<e>> \o SubSeq(rest, n + 1, Len(rest))

\* EVENT_DEFINITIONS.filter(def => !events.find(e => e.event_id === def.event_id))
RECURSIVE MissingFrom(_, _)
MissingFrom(k, evs) ==
    IF k > Len(EVENT_DEFINITIONS) THEN << >>
    ELSE (IF CountOf(evs, EVENT_DEFINITIONS[k].event_id) = 0
            THEN <<EVENT_DEFINITIONS[k]>> ELSE << >>)
         \o MissingFrom(k + 1, evs)

\* Math.floor(dailyDates.length / (8 - events.length) * (idx + 1)); events is
\* the live array, which has grown by idx entries when iteration idx runs
BackfillIndex(dates, evs, idx) == (Len(dates) * (idx + 1)) \div (8 - Len(evs))

-----------------------------------------------------------------------------
(* SyntheticDataProvider.getEvents *)

\* params.category and params.asset when they are omitted
NoCategory == ""
NoAsset == ""

\* a plausible slip: the filters of getEvents are applied to this.events itself
CacheAfterGetEventsInPlace(evs, filtered) == filtered

\* this.events after a getEvents call: the filters run on the copy
\* [...this.events], the cached list is only read
CacheAfterGetEvents(evs, filtered) == evs

\* getEvents(params): the three filters in turn, each only when its
\* parameter is truthy
getEvents(evs, startParam, endParam, category) ==
    LET byStart ==
            IF startParam.kind # "none"
            THEN SelectSeq(evs, LAMBDA e : DateGE(EventTime(e), newDate(startParam)))
            ELSE evs
        byEnd ==
            IF endParam.kind # "none"
            THEN SelectSeq(byStart, LAMBDA e : DateLE(EventTime(e), newDate(endParam)))
            ELSE byStart
        byCategory ==
            IF category # NoCategory
            THEN SelectSeq(byEnd, LAMBDA e : e.category = category)
            ELSE byEnd
    IN  [status |-> "ok", events |-> byCategory]

-----------------------------------------------------------------------------
(* SyntheticGenerator: regimes and the date axis *)

\* a plausible slip: from bull, the two outcomes below 0.30 are exchanged
selectRegimeTypeSwapped(existingRegimes, rand) ==
    IF Len(existingRegimes) = 0 THEN
        IF DrawAbove(rand, 5, 10) THEN "bull" ELSE "bear"
    ELSE
        LET lastRegime == existingRegimes[Len(existingRegimes)]
        IN  IF lastRegime.type = "bull" THEN
                IF DrawBelow(rand, 10, 100) THEN "sideways"
                ELSE IF DrawBelow(rand, 30, 100) THEN "bear"
                ELSE "bull"
            ELSE IF lastRegime.type = "bear" THEN
                IF DrawBelow(rand, 15, 100) THEN "bull"
                ELSE IF DrawBelow(rand, 35, 100) THEN "sideways"
                ELSE "bear"
            ELSE
                IF DrawBelow(rand, 40, 100) THEN "bull"
                ELSE IF DrawBelow(rand, 70, 100) THEN "bear"
                ELSE "sideways"

\* selectRegimeType(existingRegimes); rand is the Math.random() draw
selectRegimeType(existingRegimes, rand) ==
    IF Len(existingRegimes) = 0 THEN
        IF DrawAbove(rand, 5, 10) THEN "bull" ELSE "bear"
    ELSE
        LET lastRegime == existingRegimes[Len(existingRegimes)]
        IN  IF lastRegime.type = "bull" THEN
                IF DrawBelow(rand, 10, 100) THEN "bear"
                ELSE IF DrawBelow(rand, 30, 100) THEN "sideways"
                ELSE "bull"
            ELSE IF lastRegime.type = "bear" THEN
                IF DrawBelow(rand, 15, 100) THEN "bull"
                ELSE IF DrawBelow(rand, 35, 100) THEN "sideways"
                ELSE "bear"
            ELSE
                IF DrawBelow(rand, 40, 100) THEN "bull"
                ELSE IF DrawBelow(rand, 70, 100) THEN "bear"
                ELSE "sideways"

\* a plausible slip: a sideways regime has no minimum duration
getRegimeDurationNoMinimum(type, rand) ==
    IF type = "bull" THEN (30 * 10000 + rand * 150) * DayTicks
    ELSE IF type = "bear" THEN (20 * 10000 + rand * 70) * DayTicks
    ELSE (rand * 45) * DayTicks

\* getRegimeDuration(type): daysToMs(min + Math.random() * span), a real
\* number of ticks, returned here multiplied by 10000 (the unit of a draw)
getRegimeDuration(type, rand) ==
    IF type = "bull" THEN (30 * 10000 + rand * 150) * DayTicks
    ELSE IF type = "bear" THEN (20 * 10000 + rand * 70) * DayTicks
    ELSE (15 * 10000 + rand * 45) * DayTicks

\* getRegimeVolatility(type), in ten-thousandths of a percent
getRegimeVolatility(type, rand) ==
    IF type = "bull" THEN 40 * 10000 + rand * 30
    ELSE IF type = "bear" THEN 60 * 10000 + rand * 40
    ELSE 25 * 10000 + rand * 25

\* new Date(currentDate.getTime() + duration): a Date holds a whole number of
\* ticks, the fraction is dropped
RegimeEnd(cur, duration) == cur + (duration \div 10000)

\* a plausible slip: the end of the regime is not clipped to the window
NewRegimeUnclipped(cur, endTime, type, duration, vol) ==
    [start |-> cur, end |-> RegimeEnd(cur, duration), type |-> type,
     volatility |-> vol]

\* the regime pushed by one iteration of generateRegimes (lines 44-51)
NewRegime(cur, endTime, type, duration, vol) ==
    LET regimeEnd == RegimeEnd(cur, duration)
    IN  [start |-> cur,
         end |-> IF regimeEnd > endTime THEN endTime ELSE regimeEnd,
         type |-> type, volatility |-> vol]

\* a plausible slip: the lower bound of the interval test is exclusive
RegimeContainsOpenStart(r, date) == date > r.start /\ date <= r.end

\* the test of getRegimeAtDate: date >= r.start && date <= r.end
RegimeContains(r, date) == date >= r.start /\ date <= r.end

\* the regimes that pass the test for a date
Candidates(regs, date) == {k \in 1..Len(regs) : RegimeContains(regs[k], date)}

\* getRegimeAtDate(date): this.regimes.find(...) || this.regimes[0]; index is
\* the 1-based position of the regime returned, 0 for undefined
getRegimeAtDate(regs, date) ==
    LET found == LeastOf(Candidates(regs, date))
    IN  IF found # -1 THEN [index |-> found, fallback |-> FALSE]
        ELSE [index |-> IF Len(regs) > 0 THEN 1 ELSE 0, fallback |-> TRUE]

\* generateDailyDates(): while (currentDate <= endDate) push and advance by
\* one day.  setDate(getDate() + 1) keeps the time of day; a day is DayTicks
\* ticks (daylight-saving shifts of the local clock are left out).
RECURSIVE DailyDatesFrom(_, _, _)
DailyDatesFrom(cur, end, dates) ==
    IF cur <= end THEN DailyDatesFrom(cur + DayTicks, end, Append(dates, cur))
    ELSE dates
generateDailyDates(start, end) == DailyDatesFrom(start, end, << >>)

-----------------------------------------------------------------------------
(* Values of the variables a specification does not use *)

NoResult == [op |-> "none"]
NoLookup == [called |-> FALSE]

ProviderIdle == dailyDates = << >> /\ cachedData = << >> /\ result = NoResult
EventIdle ==
    /\ btcPrices = << >> /\ volatility = << >> /\ leverage = << >>
    /\ etfFlows = << >> /\ stablecoinSupply = << >> /\ randomDraws = << >>
    /\ events = << >> /\ lastEventIndex = 0 /\ scanIdx = 0
    /\ missingEvents = << >> /\ backfillIdx = 0
RegimeIdle ==
    /\ startDate = 0 /\ endDate = 0 /\ regimes = << >> /\ currentDate = 0
    /\ generatedDates = << >> /\ lookup = NoLookup
\* no VITE_DATA_MODE in the environment, providerInstance = null
NoMode == [defined |-> FALSE, value |-> ""]
NoProvider == [kind |-> "null"]
FactoryIdle == dataMode = NoMode /\ providerInstance = NoProvider /\ constructions = 0

-----------------------------------------------------------------------------
(* Specification SpecProvider: a constructed provider answering queries *)

\* a date axis as generateDailyDates builds it: one date per day
DateAxis(first, n) == [k \in 1..n |-> first + (k - 1) * DayTicks]

\* metric ids used in queries: every cached key, ids that are in no table,
\* and ids that name a member of Object.prototype
MetricIdInputs == CachedKeySet \cup {"unknown_metric", "", "constructor", "toString"}

\* date parameters: omitted, malformed, or any instant around the axis
DateInputs(dates) ==
    {NoDate, BadDate} \cup
    {toISOString(t) : t \in 0..(dates[Len(dates)] + DayTicks)}

\* asset and category parameters: omitted, or a value of the type
AssetInputs == {NoAsset, "BTC", "ETH", "TOTAL", "STABLES"}
CategoryInputs ==
    {NoCategory} \cup {EVENT_DEFINITIONS[k].category : k \in 1..Len(EVENT_DEFINITIONS)}

\* The cached event list as generateSyntheticEvents returns it: events made by
\* createEvent from dates of the axis, in ascending order of date, with ids of
\* the eight definitions the scan emits.  The list holds one event per axis
\* date from index skip on; the ids run through the catalog from position off.
CachedEvents(dates, skip, off) ==
    [j \in 1..(Len(dates) - skip) |->
        createEvent(EVENT_DEFINITIONS[((j + off) % 8) + 1].event_id,
                    DateAt(dates, j - 1 + skip)).event]

InitProvider ==
    /\ \E n \in 1..MaxAxisLen, off \in 0..(DayTicks - 1) :
         /\ dailyDates = DateAxis(DayTicks + off, n)
         /\ events = CachedEvents(dailyDates, off % 2, 5 * (n % 2))
    /\ \E vals \in [1..Len(dailyDates) -> 0..MaxValue] :
         cachedData = [m \in CachedKeySet |->
                         [k \in 1..Len(dailyDates) |->
                            (vals[k] + KeyIndex(m)) % (MaxValue + 1)]]
    /\ result = NoResult
    /\ btcPrices = << >> /\ volatility = << >> /\ leverage = << >>
    /\ etfFlows = << >> /\ stablecoinSupply = << >> /\ randomDraws = << >>
    /\ lastEventIndex = 0 /\ scanIdx = 0
    /\ missingEvents = << >> /\ backfillIdx = 0
    /\ RegimeIdle /\ FactoryIdle
    /\ pc = "ready"

GetSeries ==
    /\ pc = "ready"
    /\ \E metricId \in MetricIdInputs, sd \in DateInputs(dailyDates),
          ed \in DateInputs(dailyDates) :
         result' = [op |-> "getSeries", metricId |-> metricId,
                    startDate |-> sd, endDate |-> ed,
                    out |-> getSeries(dailyDates, cachedData, metricId, sd, ed)]
    /\ pc' = "resolved"
    /\ UNCHANGED <<factoryVars, dailyDates, cachedData, eventVars, regimeVars>>

GetLatest ==
    /\ pc = "ready"
    /\ \E metricId \in MetricIdInputs, asset \in AssetInputs :
         result' = [op |-> "getLatest", metricId |-> metricId, asset |-> asset,
                    out |-> getLatest(cachedData, metricId, asset)]
    /\ pc' = "resolved"
    /\ UNCHANGED <<factoryVars, dailyDates, cachedData, eventVars, regimeVars>>

GetMetadata ==
    /\ pc = "ready"
    /\ \E metricId \in MetricIdInputs :
         result' = [op |-> "getMetadata", metricId |-> metricId,
                    out |-> getMetadata(metricId)]
    /\ pc' = "resolved"
    /\ UNCHANGED <<factoryVars, dailyDates, cachedData, eventVars, regimeVars>>

GetEvents ==
    /\ pc = "ready"
    /\ \E sd \in DateInputs(dailyDates), ed \in DateInputs(dailyDates),
          category \in CategoryInputs :
         LET out == getEvents(events, sd, ed, category)
         IN  /\ result' = [op |-> "getEvents", startDate |-> sd, endDate |-> ed,
                           category |-> category, out |-> out]
             /\ events' = CacheAfterGetEvents(events, out.events)
    /\ pc' = "resolved"
    /\ UNCHANGED <<factoryVars, dailyDates, cachedData, btcPrices, volatility,
                   leverage, etfFlows, stablecoinSupply, randomDraws,
                   lastEventIndex, scanIdx, missingEvents, backfillIdx, regimeVars>>

\* the outcome of the query of record r issued once more
Requery(r) ==
    CASE r.op = "getSeries" ->
           getSeries(dailyDates, cachedData, r.metricId, r.startDate, r.endDate)
      [] r.op = "getLatest" -> getLatest(cachedData, r.metricId, r.asset)
      [] r.op = "getMetadata" -> getMetadata(r.metricId)
      [] r.op = "getEvents" -> getEvents(events, r.startDate, r.endDate, r.category)

\* the caller repeats its last query with the same arguments and compares
\* the two outcomes
Repeat ==
    /\ pc = "resolved"
    /\ LET again == Requery(result)
       IN  /\ result' = [op |-> "repeat", query |-> result.op,
                         failed |-> result.out.status = "threw",
                         size |-> IF result.op = "getEvents"
                                  THEN Len(result.out.events) ELSE 0,
                         same |-> again = result.out]
           /\ events' = IF result.op = "getEvents"
                         THEN CacheAfterGetEvents(events, again.events)
                         ELSE events
    /\ pc' = "repeated"
    /\ UNCHANGED <<factoryVars, dailyDates, cachedData, btcPrices, volatility,
                   leverage, etfFlows, stablecoinSupply, randomDraws,
                   lastEventIndex, scanIdx, missingEvents, backfillIdx, regimeVars>>

\* The queries are async: each returns a promise that is already settled,
\* and the caller's continuation takes the value (or the rejection) before
\* the caller issues its next query.
Await ==
    /\ pc \in {"resolved", "repeated"}
    /\ result' = NoResult
    /\ pc' = "ready"
    /\ UNCHANGED <<factoryVars, dailyDates, cachedData, eventVars, regimeVars>>

NextProvider ==
    \/ GetSeries \/ GetLatest \/ GetMetadata \/ GetEvents \/ Repeat \/ Await

SpecProvider == InitProvider /\ [][NextProvider]_vars

-----------------------------------------------------------------------------
(* Claims about the provider queries (checked under SpecProvider) *)

\* the requested inclusive window: a bound that is omitted does not restrict
InWindow(t, sd, ed) ==
    /\ (sd.kind = "iso" => sd.t <= t)
    /\ (ed.kind = "iso" => t <= ed.t)

\* a getSeries call with well-formed (or omitted) bounds has returned
SeriesReturned ==
    /\ result.op = "getSeries"
    /\ result.out.status = "ok"
    /\ result.startDate.kind # "bad"
    /\ result.endDate.kind # "bad"

\* C1: getSeries returns only observations whose date d satisfies
\* startDate <= d <= endDate, for every known metric and every pair of bounds.
C1_OnlyDatesInsideWindow ==
    SeriesReturned =>
        \A k \in 1..Len(result.out.observations) :
            InWindow(result.out.observations[k].date.t,
                     result.startDate, result.endDate)

\* C2: the observations of getSeries are a contiguous run of the date axis in
\* ascending order, the run contains every axis date inside the requested
\* inclusive window (the whole axis when both bounds are omitted), and each
\* value is the cached value at the index of its date.
C2_ContiguousAlignedRun ==
    SeriesReturned =>
        LET obs == result.out.observations
            values == cachedData[result.metricId]
        IN  /\ \E a \in 0..Len(dailyDates) :
                 /\ a + Len(obs) <= Len(dailyDates)
                 /\ \A k \in 1..Len(obs) :
                      /\ obs[k].date = toISOString(dailyDates[a + k])
                      /\ obs[k].value = values[a + k]
            /\ \A k \in 1..(Len(obs) - 1) : obs[k].date.t < obs[k + 1].date.t
            /\ \A j \in 1..Len(dailyDates) :
                 InWindow(dailyDates[j], result.startDate, result.endDate)
                   => \E k \in 1..Len(obs) : obs[k].date.t = dailyDates[j]
            /\ (result.startDate.kind = "none" /\ result.endDate.kind = "none")
                 => Len(obs) = Len(dailyDates)

\* C2 witness: a sub-range query whose startDate equals an axis date other
\* than the first and whose endDate falls between two axis dates returned a
\* run of at least two observations starting at that date.
C2_Witness ==
    /\ SeriesReturned
    /\ result.startDate.kind = "iso" /\ result.endDate.kind = "iso"
    /\ result.startDate.t > dailyDates[1]
    /\ \E j \in 2..Len(dailyDates) : dailyDates[j] = result.startDate.t
    /\ \A j \in 1..Len(dailyDates) : dailyDates[j] # result.endDate.t
    /\ Len(result.out.observations) >= 2
    /\ result.out.observations[1].date.t = result.startDate.t

\* C3: for a metric id absent from the cache getSeries and getLatest fail with
\* the unknown-metric error and getMetadata returns the fallback descriptor
\* {label: metricId, unit: '', notes: ''} without failing; for a metric id in
\* the cache none of the three fails.
C3_UnknownMetricAsymmetry ==
    /\ (result.op \in {"getSeries", "getLatest"} /\ ~HasMetric(cachedData, result.metricId))
          => (result.out.status = "threw" /\ result.out.error = "Metric not found")
    /\ (result.op = "getMetadata" /\ ~HasMetric(cachedData, result.metricId))
          => /\ result.out.status = "ok"
             /\ result.out.descriptor
             /\ result.out.label = result.metricId
             /\ result.out.unit = ""
             /\ result.out.notes = ""
    /\ (result.op \in {"getSeries", "getLatest", "getMetadata"}
          /\ HasMetric(cachedData, result.metricId))
          => result.out.status = "ok"

InvalidRange(sd, ed) ==
    \/ sd.kind = "bad"
    \/ ed.kind = "bad"
    \/ (sd.kind = "iso" /\ ed.kind = "iso" /\ ed.t < sd.t)

\* C17, as stated: a getSeries or getEvents query whose endDate is before its
\* startDate, or whose date strings are malformed, is rejected with
\* InvalidRange before any cache lookup and returns no data.
C17_InvalidRangeRejected ==
    (result.op \in {"getSeries", "getEvents"}
        /\ InvalidRange(result.startDate, result.endDate))
      => (result.out.status = "threw" /\ result.out.error = "InvalidRange")

\* a getEvents call with well-formed (or omitted) bounds has returned
EventsReturned ==
    /\ result.op = "getEvents"
    /\ result.startDate.kind # "bad"
    /\ result.endDate.kind # "bad"

\* the test an event passes to be returned by the call of record r
EventWanted(e, r) ==
    /\ InWindow(EventTime(e), r.startDate, r.endDate)
    /\ (r.category # NoCategory => e.category = r.category)

\* C18: getEvents returns exactly the cached events whose date d satisfies
\* startDate <= d <= endDate (each bound only when given) and whose category
\* equals the category parameter (when given), in the ascending order of the
\* cached list; without parameters it returns all cached events.
C18_EventsFilteredInOrder ==
    EventsReturned =>
        LET out == result.out.events
            kept == {k \in 1..Len(events) : EventWanted(events[k], result)}
        IN  /\ result.out.status = "ok"
            /\ Len(out) = Cardinality(kept)
            /\ \A k \in kept : out[Cardinality({j \in kept : j <= k})] = events[k]
            /\ \A j \in 1..(Len(out) - 1) : EventTime(out[j]) <= EventTime(out[j + 1])
            /\ (result.startDate.kind = "none" /\ result.endDate.kind = "none"
                  /\ result.category = NoCategory) => out = events

\* C18 witness: a call with both bounds and a category returned a proper,
\* non-empty part of the cached list that includes an event dated exactly
\* endDate and leaves out an event of the window with another category.
C18_Witness ==
    /\ EventsReturned
    /\ result.startDate.kind = "iso" /\ result.endDate.kind = "iso"
    /\ result.category # NoCategory
    /\ Len(result.out.events) >= 1
    /\ \E j \in 1..Len(result.out.events) :
         EventTime(result.out.events[j]) = result.endDate.t
    /\ \E k \in 1..Len(events) :
         /\ InWindow(EventTime(events[k]), result.startDate, result.endDate)
         /\ events[k].category # result.category

\* C20: for every cached metric getLatest returns the cached value at the last
\* index of the date axis, which is the value of the last observation of
\* getSeries without bounds, and the optional asset parameter never changes
\* the result.
C20_LatestIsLastValue ==
    (result.op = "getLatest" /\ HasMetric(cachedData, result.metricId)) =>
        LET series == getSeries(dailyDates, cachedData, result.metricId, NoDate, NoDate)
        IN  /\ result.out.status = "ok"
            /\ result.out.value = cachedData[result.metricId][Len(dailyDates)]
            /\ result.out.value = series.observations[Len(series.observations)].value
            /\ \A asset \in AssetInputs :
                 getLatest(cachedData, result.metricId, asset) = result.out

\* C20 witness: getLatest with an asset on a cached metric whose first and
\* last cached values differ.
C20_Witness ==
    /\ result.op = "getLatest"
    /\ HasMetric(cachedData, result.metricId)
    /\ result.asset # NoAsset
    /\ Len(dailyDates) >= 2
    /\ cachedData[result.metricId][1] # cachedData[result.metricId][Len(dailyDates)]
    /\ result.out.status = "ok"

-----------------------------------------------------------------------------
(* Specification SpecEvents: one run of generateSyntheticEvents *)

\* Input series.  Each is piecewise linear in the day index i: base, a slope
\* up to day knee and another slope after it.
Shape(base, slope, knee, slope2) ==
    [base |-> base, slope |-> slope, knee |-> knee, slope2 |-> slope2]
SeriesOf(shape, n) ==
    [k \in 1..n |-> shape.base + shape.slope * Min(k - 1, shape.knee)
                      + shape.slope2 * Max(0, (k - 1) - shape.knee)]

PriceShapes ==
    { Shape(1000, 0, 0, 0),          \* flat
      Shape(1003, -4, 240, 0),       \* steady decline
      Shape(1000, 0, 150, 20) }      \* flat, then a rally from day 150
VolatilityShapes ==
    { Shape(50, 0, 0, 0),            \* calm
      Shape(90, 0, 0, 0),            \* stressed
      Shape(30, 6, 240, 0) }         \* rising 6 points a day
LeverageShapes ==
    { Shape(10, 0, 0, 0), Shape(15, 0, 0, 0), Shape(22, 0, 0, 0) }
EtfFlowShapes ==
    { Shape(0, 0, 0, 0), Shape(200, 0, 0, 0) }
SupplyShapes ==
    { Shape(100, 0, 0, 0),           \* flat
      Shape(100, 1, 240, 0),         \* growing
      Shape(400, -1, 240, 0) }       \* shrinking

\* The draws of Math.random() in rule 6, one per day: never below 0.002,
\* always below it, or below it from day 100 on.
DrawShapes ==
    { Shape(20, 0, 0, 0), Shape(19, 0, 0, 0), Shape(5000, 0, 99, -4981) }

\* axis lengths: empty, just past the 30-day look-back, and longer
AxisLengths == {0, 31, 120, MaxDays}

InitEvents ==
    /\ \E n \in AxisLengths : dailyDates = DateAxis(DayTicks, n)
    /\ \E sh \in PriceShapes : btcPrices = SeriesOf(sh, Len(dailyDates))
    /\ \E sh \in VolatilityShapes : volatility = SeriesOf(sh, Len(dailyDates))
    /\ \E sh \in LeverageShapes : leverage = SeriesOf(sh, Len(dailyDates))
    /\ \E sh \in EtfFlowShapes : etfFlows = SeriesOf(sh, Len(dailyDates))
    /\ \E sh \in SupplyShapes : stablecoinSupply = SeriesOf(sh, Len(dailyDates))
    /\ \E sh \in DrawShapes :
         randomDraws = [k \in 1..Len(dailyDates) |->
                          Max(19, SeriesOf(sh, Len(dailyDates))[k])]
    /\ events = << >>
    /\ lastEventIndex = -20
    /\ scanIdx = 0
    /\ missingEvents = << >> /\ backfillIdx = 0
    /\ cachedData = << >> /\ result = NoResult
    /\ RegimeIdle /\ FactoryIdle
    /\ pc = "scan"

\* one iteration of dailyDates.forEach((date, i) => ...) (lines 382-438)
ScanDay ==
    /\ pc = "scan"
    /\ scanIdx < Len(dailyDates)
    /\ IF SkipDay(scanIdx, lastEventIndex)
         THEN UNCHANGED <<factoryVars, events, lastEventIndex>>
         ELSE LET id == RuleChain(scanIdx, lastEventIndex, events,
                                  randomDraws[scanIdx + 1])
              IN  IF id = ""
                    THEN UNCHANGED <<factoryVars, events, lastEventIndex>>
                    ELSE /\ events' = Append(events,
                                createEvent(id, DateAt(dailyDates, scanIdx)).event)
                         /\ lastEventIndex' = scanIdx
    /\ scanIdx' = scanIdx + 1
    /\ UNCHANGED <<factoryVars, dailyDates, cachedData, result, btcPrices, volatility, leverage,
                   etfFlows, stablecoinSupply, randomDraws, missingEvents, backfillIdx,
                   regimeVars, pc>>

\* the end of the scan loop and the test if (events.length < 8), with the
\* filter and the slice that fix the definitions to backfill (lines 441-446)
ScanDone ==
    /\ pc = "scan"
    /\ scanIdx = Len(dailyDates)
    /\ IF Len(events) < 8
         THEN missingEvents' = Slice(MissingFrom(1, events), 0, 8 - Len(events))
         ELSE missingEvents' = << >>
    /\ backfillIdx' = 0
    /\ pc' = "backfill"
    /\ UNCHANGED <<factoryVars, dailyDates, cachedData, result, btcPrices, volatility, leverage,
                   etfFlows, stablecoinSupply, randomDraws, events, lastEventIndex, scanIdx,
                   regimeVars>>

\* one iteration of missingEvents.slice(...).forEach((def, idx) => ...)
\* (lines 446-449); createEvent throws when the date index is off the axis
BackfillOne ==
    /\ pc = "backfill"
    /\ backfillIdx < Len(missingEvents)
    /\ LET def == missingEvents[backfillIdx + 1]
           eventDate == DateAt(dailyDates, BackfillIndex(dailyDates, events, backfillIdx))
           created == createEvent(def.event_id, eventDate)
       IN  IF created.status = "ok"
             THEN /\ events' = Append(events, created.event)
                  /\ backfillIdx' = backfillIdx + 1
                  /\ UNCHANGED <<factoryVars, result, pc>>
             ELSE /\ result' = [op |-> "generateSyntheticEvents",
                                out |-> [status |-> "threw", error |-> created.error]]
                  /\ pc' = "threw"
                  /\ UNCHANGED <<factoryVars, events, backfillIdx>>
    /\ UNCHANGED <<factoryVars, dailyDates, cachedData, btcPrices, volatility, leverage,
                   etfFlows, stablecoinSupply, randomDraws, lastEventIndex, scanIdx,
                   missingEvents, regimeVars>>

\* return events.sort(...) (line 452): sorts the array in place and returns it
ReturnSorted ==
    /\ pc = "backfill"
    /\ backfillIdx = Len(missingEvents)
    /\ events' = SortByDate(events)
    /\ result' = [op |-> "generateSyntheticEvents",
                  out |-> [status |-> "ok", events |-> events']]
    /\ pc' = "returned"
    /\ UNCHANGED <<factoryVars, dailyDates, cachedData, btcPrices, volatility, leverage,
                   etfFlows, stablecoinSupply, randomDraws, lastEventIndex, scanIdx,
                   missingEvents, backfillIdx, regimeVars>>

NextEvents == ScanDay \/ ScanDone \/ BackfillOne \/ ReturnSorted

SpecEvents == InitEvents /\ [][NextEvents]_vars

-----------------------------------------------------------------------------
(* Claims about generateSyntheticEvents (checked under SpecEvents) *)

\* the day index of an event: the index of its date on the axis
DayIndexOf(e) ==
    CHOOSE k \in 0..(Len(dailyDates) - 1) : dailyDates[k + 1] = EventTime(e)

\* the events array holds exactly the events emitted by the condition scan:
\* during the scan loop and until the first backfill iteration
BeforeBackfill == pc = "scan" \/ (pc = "backfill" /\ backfillIdx = 0)

\* C4: for every input generateSyntheticEvents returns normally, with a list
\* of at least 8 events (backfilled up to exactly 8 when the scan emitted
\* fewer).
C4_ReturnsAtLeastEight ==
    /\ pc # "threw"
    /\ pc = "returned" => Len(result.out.events) >= 8

\* C5: any two events emitted by the condition scan are at least 15 day
\* indices apart, whatever their ids, and the last-event cursor is the day of
\* the latest emission (its initial -20 while nothing was emitted).
C5_ScanEventsSpaced ==
    BeforeBackfill =>
        /\ \A a \in 1..Len(events) : \A b \in 1..Len(events) :
              a < b => DayIndexOf(events[b]) - DayIndexOf(events[a]) >= 15
        /\ lastEventIndex = IF events = << >> THEN -20
                            ELSE DayIndexOf(events[Len(events)])

\* C5 witness: the scan has emitted two events of different ids exactly 15
\* days apart, and a later day has been passed over.
C5_Witness ==
    /\ pc = "scan"
    /\ Len(events) >= 2
    /\ events[1].event_id # events[2].event_id
    /\ DayIndexOf(events[2]) - DayIndexOf(events[1]) = 15
    /\ scanIdx > lastEventIndex + 1

C7_EventsMatchCatalog ==
    /\ Len(EVENT_DEFINITIONS) = 10
    /\ \A k \in 1..Len(events) :
          \E d \in 1..Len(EVENT_DEFINITIONS) :
              /\ events[k].event_id = EVENT_DEFINITIONS[d].event_id
              /\ events[k].label = EVENT_DEFINITIONS[d].label
              /\ events[k].category = EVENT_DEFINITIONS[d].category
              /\ events[k].severity = EVENT_DEFINITIONS[d].severity
              /\ events[k].description = EVENT_DEFINITIONS[d].description
    /\ pc = "returned" => result.out.events = events

\* C7 witness: a returned list holding events of at least three definitions.
C7_Witness ==
    /\ pc = "returned"
    /\ Cardinality({events[k].event_id : k \in 1..Len(events)}) >= 3

-----------------------------------------------------------------------------
(* Specification SpecGenerator: new SyntheticGenerator(startDate, endDate), *)
(* then generateDailyDates and regime lookups                              *)

\* startDate: midnight or later on day 0, or midnight of day 1
StartInputs == 0..DayTicks
EndInputs == 0..(MaxWindowDays * DayTicks)
\* draws for the duration and the volatility of a regime: both ends of [0, 1)
SpanDraws == {0, 9999}

InitGenerator ==
    /\ startDate \in StartInputs
    /\ endDate \in EndInputs
    /\ regimes = << >>
    /\ currentDate = startDate
    /\ generatedDates = << >>
    /\ lookup = NoLookup
    /\ ProviderIdle /\ EventIdle /\ FactoryIdle
    /\ pc = "generateRegimes"

\* one iteration of the while loop of generateRegimes (lines 39-54)
RegimeStep ==
    /\ pc = "generateRegimes"
    /\ currentDate < endDate
    /\ \E r1 \in UniformDraws, r2 \in SpanDraws, r3 \in SpanDraws :
         LET regimeType == selectRegimeType(regimes, r1)
             duration == getRegimeDuration(regimeType, r2)
             vol == getRegimeVolatility(regimeType, r3)
         IN  /\ regimes' = Append(regimes,
                    NewRegime(currentDate, endDate, regimeType, duration, vol))
             /\ currentDate' = RegimeEnd(currentDate, duration)
    /\ UNCHANGED <<factoryVars, providerVars, eventVars, startDate, endDate, generatedDates,
                   lookup, pc>>

\* the loop exit: return regimes, the constructor stores them (line 28)
RegimesDone ==
    /\ pc = "generateRegimes"
    /\ ~(currentDate < endDate)
    /\ pc' = "constructed"
    /\ UNCHANGED <<factoryVars, providerVars, eventVars, regimeVars>>

GenerateDailyDates ==
    /\ pc = "constructed"
    /\ generatedDates' = generateDailyDates(startDate, endDate)
    /\ pc' = "dates"
    /\ UNCHANGED <<factoryVars, providerVars, eventVars, startDate, endDate, regimes,
                   currentDate, lookup>>

\* a series generator looks up the regime of a date
GetRegimeAtDate ==
    /\ pc = "dates"
    /\ \E date \in startDate..endDate :
         lookup' = [called |-> TRUE, date |-> date,
                    regime |-> getRegimeAtDate(regimes, date)]
    /\ pc' = "looked"
    /\ UNCHANGED <<factoryVars, providerVars, eventVars, startDate, endDate, regimes,
                   currentDate, generatedDates>>

NextGenerator == RegimeStep \/ RegimesDone \/ GenerateDailyDates \/ GetRegimeAtDate

SpecGenerator == InitGenerator /\ [][NextGenerator]_vars

-----------------------------------------------------------------------------
(* Claims about the generator (checked under SpecGenerator) *)

\* generateRegimes has returned
RegimesBuilt == pc \in {"constructed", "dates", "looked"}

\* C8: for every start < end the regime list is non-empty, ordered and
\* contiguous: the first regime starts at start, each later regime starts
\* exactly where the previous one ends, and the last regime ends exactly at end.
C8_RegimesContiguous ==
    (RegimesBuilt /\ startDate < endDate) =>
        /\ Len(regimes) >= 1
        /\ regimes[1].start = startDate
        /\ \A k \in 1..Len(regimes) : regimes[k].start < regimes[k].end
        /\ \A k \in 1..(Len(regimes) - 1) : regimes[k + 1].start = regimes[k].end
        /\ regimes[Len(regimes)].end = endDate

\* C8 witness: a list of at least three regimes whose last drawn end lay
\* beyond endDate and was clipped to it.
C8_Witness ==
    /\ RegimesBuilt
    /\ Len(regimes) >= 3
    /\ currentDate > endDate
    /\ regimes[Len(regimes)].end = endDate

\* C9, as stated: for every instant in [start, end] (start < end) exactly one
\* regime of the list contains it under the inclusive test of the lookup, so the lookup
\* never needs its fallback and never has two candidate regimes.
C9_ExactlyOneRegime ==
    /\ (pc = "constructed" /\ startDate < endDate) =>
          \A t \in startDate..endDate : Cardinality(Candidates(regimes, t)) = 1
    /\ (pc = "looked" /\ startDate < endDate) =>
          /\ ~lookup.regime.fallback
          /\ Cardinality(Candidates(regimes, lookup.date)) = 1

\* the instant is the shared boundary of regimes k and k + 1
SharedBoundary(t, k) ==
    /\ k + 1 <= Len(regimes)
    /\ regimes[k].end = t
    /\ regimes[k + 1].start = t

\* C9, amended: for every start < end and every instant in [start, end] at
\* least one regime contains it under the inclusive test, so the lookup never
\* needs its fallback; exactly one regime contains it, except at the shared
\* boundary of two consecutive regimes, which both contain: there the lookup
\* returns the earlier of the two.
C9_CoveredOverlapOnlyAtBoundary ==
    /\ (pc = "constructed" /\ startDate < endDate) =>
          \A t \in startDate..endDate :
              LET c == Candidates(regimes, t)
              IN  \/ Cardinality(c) = 1
                  \/ \E k \in c : c = {k, k + 1} /\ SharedBoundary(t, k)
    /\ (pc = "looked" /\ startDate < endDate) =>
          LET c == Candidates(regimes, lookup.date)
          IN  /\ ~lookup.regime.fallback
              /\ lookup.regime.index \in c
              /\ \A k \in c : lookup.regime.index <= k

\* C9 witness: a lookup at the shared boundary of two regimes returned the
\* earlier one.
C9_Witness ==
    /\ pc = "looked"
    /\ startDate < endDate
    /\ Cardinality(Candidates(regimes, lookup.date)) = 2
    /\ SharedBoundary(lookup.date, lookup.regime.index)

\* the calendar day of an instant
DayOf(t) == t \div DayTicks

\* C10: for every start <= end generateDailyDates returns one date per day:
\* the first element is start, consecutive elements are one day apart, the
\* last element is on the day of end, and the length is the inclusive day
\* count of [start, end].  (Read by calendar day, as the tests compare
\* dates: an element equal to end as an instant is more than the code gives
\* whenever end - start is not a whole number of days.)
C10_DailyDatesCoverWindow ==
    (pc = "dates" /\ startDate <= endDate) =>
        /\ Len(generatedDates) = DayOf(endDate) - DayOf(startDate) + 1
        /\ generatedDates[1] = startDate
        /\ \A k \in 1..(Len(generatedDates) - 1) :
              generatedDates[k + 1] = generatedDates[k] + DayTicks
        /\ DayOf(generatedDates[Len(generatedDates)]) = DayOf(endDate)

-----------------------------------------------------------------------------
(* The provider factory (data/index.ts) and the OpenDataProvider stub *)

\* import.meta.env.VITE_DATA_MODE set to a string
Mode(v) == [defined |-> TRUE, value |-> v]

\* const mode = import.meta.env.VITE_DATA_MODE || 'synthetic'
EffectiveMode(env) ==
    IF env.defined /\ env.value # "" THEN env.value ELSE "synthetic"

\* the switch of createDataProvider: the class it instantiates
ProviderKind(mode) ==
    IF mode = "synthetic" THEN "synthetic"
    ELSE IF mode = "open" THEN "open"
    ELSE "synthetic"

\* createDataProvider().  new OpenDataProvider() has no constructor code;
\* new SyntheticDataProvider() runs generateAllData, whose event backfill
\* throws a TypeError whenever the scan emitted fewer than 8 events: built
\* tells whether the scan of this construction emitted at least 8.
createDataProvider(env, built) ==
    LET kind == ProviderKind(EffectiveMode(env))
    IN  IF kind = "synthetic" /\ ~built
        THEN [status |-> "threw", error |-> "TypeError"]
        ELSE [status |-> "ok", provider |-> [kind |-> kind]]

\* every method of OpenDataProvider throws the same error
NotImplemented ==
    "OpenDataProvider not yet implemented. Use synthetic mode or implement a specific adapter."
OpenDataProviderCall == [status |-> "threw", error |-> NotImplemented]

-----------------------------------------------------------------------------
(* Specification SpecFactory: the factory and calls on the stub it returns *)

\* values of VITE_DATA_MODE: unset, empty, the two modes, and other strings
ModeInputs ==
    {NoMode, Mode(""), Mode("synthetic"), Mode("open"), Mode("OPEN"),
     Mode("live"), Mode("coingecko")}

\* date parameters handed to the stub
StubDateInputs == DateInputs(<<0>>)

\* createDataProvider is invoked at most this many times in a run
MaxConstructions == 3

InitFactory ==
    /\ dataMode \in ModeInputs
    /\ providerInstance = NoProvider
    /\ constructions = 0
    /\ ProviderIdle /\ EventIdle /\ RegimeIdle
    /\ pc = "start"

\* the object a new expression yields: every construction is a new object,
\* told apart by the number of the construction that made it
NewInstance(provider, n) == [kind |-> provider.kind, id |-> n]

\* a direct call of createDataProvider()
CreateDataProvider ==
    /\ pc = "start"
    /\ \E built \in BOOLEAN :
         LET out == createDataProvider(dataMode, built)
         IN  /\ result' = [op |-> "createDataProvider", out |-> out,
                           provider |-> IF out.status = "ok"
                                        THEN NewInstance(out.provider, constructions + 1)
                                        ELSE NoProvider]
             /\ pc' = IF out.status = "ok" THEN "created" ELSE "threw"
    /\ constructions' = constructions + 1
    /\ UNCHANGED <<dailyDates, cachedData, eventVars, regimeVars, dataMode,
                   providerInstance>>

\* a plausible slip: the factory is called on every getDataProvider()
NeedsProviderAlways(instance) == TRUE

\* if (!providerInstance)
NeedsProvider(instance) == instance = NoProvider

\* a plausible slip: a failed construction leaves an object in providerInstance
StoredInstanceOnThrow(instance, made) ==
    IF made.status = "ok" THEN made.provider ELSE [kind |-> "synthetic", id |-> 0]

\* providerInstance after providerInstance = createDataProvider(): when the
\* call throws, the assignment does not happen
StoredInstance(instance, made) ==
    IF made.status = "ok" THEN made.provider ELSE instance

\* getDataProvider(): if (!providerInstance) providerInstance =
\* createDataProvider(); return providerInstance.  When createDataProvider
\* throws, the error reaches the caller, who may call again later.
GetDataProvider ==
    /\ pc \in {"start", "created", "called", "threw"}
    /\ NeedsProvider(providerInstance) => constructions < MaxConstructions
    /\ \E built \in BOOLEAN :
         LET out == createDataProvider(dataMode, built)
             made == IF NeedsProvider(providerInstance)
                     THEN (IF out.status = "ok"
                             THEN [status |-> "ok",
                                   provider |-> NewInstance(out.provider, constructions + 1)]
                             ELSE out)
                     ELSE [status |-> "ok", provider |-> providerInstance]
             stored == IF NeedsProvider(providerInstance)
                       THEN StoredInstance(providerInstance, made)
                       ELSE providerInstance
         IN  /\ result' = [op |-> "getDataProvider", out |-> made,
                           created |-> NeedsProvider(providerInstance),
                           provider |-> IF made.status = "ok" THEN stored
                                        ELSE NoProvider]
             /\ providerInstance' = stored
             /\ pc' = IF made.status = "ok" THEN "created" ELSE "threw"
    /\ constructions' = IF NeedsProvider(providerInstance)
                        THEN constructions + 1 ELSE constructions
    /\ UNCHANGED <<dailyDates, cachedData, eventVars, regimeVars, dataMode>>

\* the caller holds an OpenDataProvider
HoldsStub == pc \in {"created", "called"} /\ result.provider.kind = "open"

\* the caller holds a SyntheticDataProvider
HoldsSynthetic == pc \in {"created", "called"} /\ result.provider.kind = "synthetic"

\* a query on the synthetic provider the caller holds (getSeries, getLatest,
\* getMetadata or getEvents; their outcomes are specification SpecProvider)
SyntheticQuery ==
    /\ HoldsSynthetic
    /\ \E op \in {"getSeries", "getLatest", "getMetadata", "getEvents"} :
         result' = [op |-> op, provider |-> result.provider,
                    out |-> [status |-> "answered"]]
    /\ pc' = "called"
    /\ UNCHANGED <<dailyDates, cachedData, eventVars, regimeVars, factoryVars>>

OpenGetSeries ==
    /\ HoldsStub
    /\ \E metricId \in MetricIdInputs, sd \in StubDateInputs, ed \in StubDateInputs :
         result' = [op |-> "getSeries", provider |-> result.provider,
                    metricId |-> metricId, startDate |-> sd, endDate |-> ed,
                    out |-> OpenDataProviderCall]
    /\ pc' = "called"
    /\ UNCHANGED <<dailyDates, cachedData, eventVars, regimeVars, factoryVars>>

OpenGetLatest ==
    /\ HoldsStub
    /\ \E metricId \in MetricIdInputs, asset \in AssetInputs :
         result' = [op |-> "getLatest", provider |-> result.provider,
                    metricId |-> metricId, asset |-> asset,
                    out |-> OpenDataProviderCall]
    /\ pc' = "called"
    /\ UNCHANGED <<dailyDates, cachedData, eventVars, regimeVars, factoryVars>>

OpenGetMetadata ==
    /\ HoldsStub
    /\ \E metricId \in MetricIdInputs :
         result' = [op |-> "getMetadata", provider |-> result.provider,
                    metricId |-> metricId, out |-> OpenDataProviderCall]
    /\ pc' = "called"
    /\ UNCHANGED <<dailyDates, cachedData, eventVars, regimeVars, factoryVars>>

OpenGetEvents ==
    /\ HoldsStub
    /\ \E sd \in StubDateInputs, ed \in StubDateInputs, category \in CategoryInputs :
         result' = [op |-> "getEvents", provider |-> result.provider,
                    startDate |-> sd, endDate |-> ed, category |-> category,
                    out |-> OpenDataProviderCall]
    /\ pc' = "called"
    /\ UNCHANGED <<dailyDates, cachedData, eventVars, regimeVars, factoryVars>>

NextFactory ==
    \/ CreateDataProvider \/ GetDataProvider
    \/ OpenGetSeries \/ OpenGetLatest \/ OpenGetMetadata \/ OpenGetEvents
    \/ SyntheticQuery

SpecFactory == InitFactory /\ [][NextFactory]_vars

-----------------------------------------------------------------------------
(* Claims about the factory (checked under SpecFactory) *)

\* C19, as stated: createDataProvider returns the synthetic provider when the
\* data mode is unset or 'synthetic', returns the OpenDataProvider stub, whose
\* four operations all fail as not implemented, only when the mode is 'open',
\* and falls back to the synthetic provider for any other mode.
C19_FactorySelectsProvider ==
    /\ result.op = "createDataProvider" =>
         /\ result.out.status = "ok"
         /\ result.out.provider.kind =
              (IF dataMode.defined /\ dataMode.value = "open"
               THEN "open" ELSE "synthetic")
    /\ (result.op \in {"getSeries", "getLatest", "getMetadata", "getEvents"}
          /\ result.provider.kind = "open")
         => result.out = [status |-> "threw", error |-> NotImplemented]

\* C29: once a getDataProvider call has constructed a provider, every later
\* call returns that same instance and createDataProvider is not invoked
\* again; the stored instance changes only from null, by a call that
\* constructed it and returns it.
C29_SingleSharedInstance ==
    /\ [][(result'.op = "getDataProvider" /\ providerInstance # NoProvider) =>
             /\ result'.out.status = "ok"
             /\ ~result'.created
             /\ result'.provider = providerInstance
             /\ providerInstance' = providerInstance
             /\ constructions' = constructions]_vars
    /\ [][providerInstance' # providerInstance =>
             /\ providerInstance = NoProvider
             /\ result'.op = "getDataProvider"
             /\ result'.out.status = "ok"
             /\ result'.provider = providerInstance']_vars

\* C29 witness: after one failed and one successful construction of the
\* synthetic provider, a further getDataProvider call has returned the stored
\* instance without constructing.
C29_Witness ==
    /\ result.op = "getDataProvider"
    /\ ~result.created
    /\ result.provider = providerInstance
    /\ providerInstance.kind = "synthetic"
    /\ constructions >= 2

\* the operations a consumer calls on a provider
QueryOps == {"getSeries", "getLatest", "getMetadata", "getEvents"}

\* C30: when the construction of the provider fails, the failure leaves
\* createDataProvider and getDataProvider, no provider instance is stored or
\* returned, and every query runs on an instance whose construction returned.
C30_ConstructionFailurePropagates ==
    /\ (result.op \in {"createDataProvider", "getDataProvider"}
          /\ result.out.status = "threw") =>
          /\ pc = "threw"
          /\ result.provider = NoProvider
          /\ providerInstance = NoProvider
    /\ providerInstance # NoProvider => providerInstance.id \in 1..constructions
    /\ result.op \in QueryOps =>
          /\ result.provider # NoProvider
          /\ result.provider.id \in 1..constructions

\* C30 witness: getDataProvider has thrown for the second time in a run, the
\* synthetic provider's construction having failed twice.
C30_Witness ==
    /\ result.op = "getDataProvider"
    /\ result.out.status = "threw"
    /\ constructions = 2
    /\ providerInstance = NoProvider

-----------------------------------------------------------------------------
(* SyntheticGenerator: the series generators *)

\* Units of the series.  A price is a whole number of dollars, a relative
\* daily change is counted in ten-thousandths of the price, a volatility in
\* ten-thousandths of a percent (the unit of getRegimeVolatility), and a value
\* of gaussianRandom() in hundredths.  The code computes in doubles; the model
\* rounds each product down to a whole number of its unit.

\* the while loop of generateRegimes (lines 39-54), each draw of the run
\* taken from one of r1, r2, r3
RECURSIVE RegimesFrom(_, _, _, _, _, _)
RegimesFrom(cur, endTime, regs, r1, r2, r3) ==
    IF cur < endTime THEN
        LET regimeType == selectRegimeType(regs, r1)
            duration == getRegimeDuration(regimeType, r2)
            vol == getRegimeVolatility(regimeType, r3)
        IN  RegimesFrom(RegimeEnd(cur, duration), endTime,
                        Append(regs, NewRegime(cur, endTime, regimeType, duration, vol)),
                        r1, r2, r3)
    ELSE regs
generateRegimes(start, end, r1, r2, r3) == RegimesFrom(start, end, << >>, r1, r2, r3)

\* gaussianRandom(): sqrt(-2 ln u) * cos(2 pi v) with u, v redrawn until they
\* are not 0, so |value| <= sqrt(-2 ln 2^-53) < 8.58; in hundredths
GaussianDraws == {-857, -100, 0, 100, 857}

\* drift of generateBTCPrice by regime type: 0.0015, -0.002, 0.0002
Drift(type) ==
    IF type = "bull" THEN 15 ELSE IF type = "bear" THEN -20 ELSE 2

\* shock = gaussianRandom() * (dailyVol / 100), dailyVol = volatility / sqrt(252);
\* 1 / sqrt(252) is taken as 0.063
Shock(z, vol) == (z * (vol \div 1000) * 63) \div 10000

\* a plausible slip: the floor of the clamp is left out
ClampPriceNoFloor(price) == Min(150000, price)

\* price = Math.max(10000, Math.min(150000, price))
ClampPrice(price) == Max(10000, Min(150000, price))

\* one iteration of the forEach of generateBTCPrice: the price pushed for
\* a day, from the price of the day before
NextBTCPrice(price, regime, z) ==
    LET change == Drift(regime.type) + Shock(z, regime.volatility)
    IN  ClampPrice(price + (price * change) \div 10000)

\* the forEach of generateBTCPrice from index i on.  getRegimeAtDate returns
\* undefined when the regime list is empty, and regime.volatility then throws.
RECURSIVE BTCPricesFrom(_, _, _, _, _, _)
BTCPricesFrom(regs, dates, gauss, i, price, prices) ==
    IF i >= Len(dates) THEN [status |-> "ok", value |-> prices]
    ELSE
        LET found == getRegimeAtDate(regs, dates[i + 1])
        IN  IF found.index = 0 THEN [status |-> "TypeError"]
            ELSE
                LET next == NextBTCPrice(price, regs[found.index], gauss[i + 1])
                IN  BTCPricesFrom(regs, dates, gauss, i + 1, next, Append(prices, next))

\* generateBTCPrice(dailyDates); rand is the draw of the initial price
\* 30000 + Math.random() * 20000, gauss the values of gaussianRandom() by day
generateBTCPrice(regs, dates, rand, gauss) ==
    BTCPricesFrom(regs, dates, gauss, 0, 30000 + rand * 2, << >>)

\* a double that may be NaN
NaN == [nan |-> TRUE, v |-> 0]
Num(v) == [nan |-> FALSE, v |-> v]

\* Math.sqrt of a whole number, rounded down
RECURSIVE SqrtBetween(_, _, _)
SqrtBetween(n, lo, hi) ==
    IF lo >= hi THEN lo
    ELSE LET mid == (lo + hi + 1) \div 2
         IN  IF mid * mid <= n THEN SqrtBetween(n, mid, hi)
             ELSE SqrtBetween(n, lo, mid - 1)
MathSqrt(n) == SqrtBetween(n, 0, 46340)

\* Math.log(a / b) in ten-thousandths, for positive a and b:
\* ln(a / b) = 2 atanh((a - b) / (a + b)), by its series up to the fifth power
MathLogRatio(a, b) ==
    LET x == ((a - b) * 10000) \div (a + b)
        x2 == (x * x) \div 10000
        x3 == (x2 * x) \div 10000
        x5 == (x3 * x2) \div 10000
    IN  2 * (x + (x3 \div 3) + (x5 \div 5))

\* Math.log(prices[j] / prices[j - 1]): a read outside the array gives
\* undefined, and a quotient with undefined is NaN
LogReturn(prices, j) ==
    IF InRange(prices, j) /\ InRange(prices, j - 1)
    THEN Num(MathLogRatio(prices[j + 1], prices[j]))
    ELSE NaN

\* const window = 30
window == 30

\* a plausible slip: the loop of returns starts at i - window + 1
WindowStartShifted(i) == i - window + 1

\* the first j of the loop for (let j = i - window; j < i; j++)
WindowStart(i) == i - window

\* the returns array of one day i >= window
Returns(prices, i) ==
    [k \in 1..(i - WindowStart(i)) |-> LogReturn(prices, WindowStart(i) + k - 1)]

\* realizedVol = Math.sqrt(variance * 252) * 100 of the returns of day i, in
\* ten-thousandths of a percent; NaN as soon as one return is NaN.  The
\* squared deviations are kept in millionths.
RealizedVol(prices, i) ==
    LET returns == Returns(prices, i)
        n == Len(returns)
    IN  IF \E k \in 1..n : returns[k].nan THEN NaN
        ELSE
            LET r == [k \in 1..n |-> returns[k].v]
                mean == SumRange(r, 0, n) \div n
                sq == [k \in 1..n |-> ((r[k] - mean) * (r[k] - mean)) \div 100]
                variance == SumRange(sq, 0, n) \div n
            IN  Num(MathSqrt(variance * 252) * 1000)

\* the value pushed for day i by generateVolatility (lines 201-216)
VolatilityAt(regime, prices, i) ==
    IF i < window THEN Num(regime.volatility)
    ELSE
        LET realizedVol == RealizedVol(prices, i)
        IN  IF realizedVol.nan THEN NaN
            ELSE Num((7 * realizedVol.v + 3 * regime.volatility) \div 10)

\* generateVolatility(prices, dailyDates)
generateVolatility(regs, prices, dates) ==
    IF Len(dates) > 0 /\ Len(regs) = 0 THEN [status |-> "TypeError"]
    ELSE [status |-> "ok",
          value |-> [k \in 1..Len(dates) |->
                       VolatilityAt(regs[getRegimeAtDate(regs, dates[k]).index],
                                    prices, k - 1)]]

\* a plausible slip: the peak is the latest price
RunningPeakLatest(peak, price) == price

\* peak = Math.max(peak, price)
RunningPeak(peak, price) == Max(peak, price)

\* ((price - peak) / peak) * 100, in hundredths of a percent, rounded down
Drawdown(price, peak) == ((price - peak) * 10000) \div peak

\* the forEach of generateDrawdown from index i on: the value of the local
\* peak after each iteration and the drawdown pushed by it
RECURSIVE DrawdownRun(_, _, _, _)
DrawdownRun(prices, i, peak, run) ==
    IF i >= Len(prices) THEN run
    ELSE LET p == RunningPeak(peak, prices[i + 1])
         IN  DrawdownRun(prices, i + 1, p,
                 Append(run, [peak |-> p, drawdown |-> Drawdown(prices[i + 1], p)]))

\* generateDrawdown(prices): let peak = prices[0], then the forEach
generateDrawdown(prices) ==
    IF Len(prices) = 0 THEN << >>
    ELSE LET run == DrawdownRun(prices, 0, prices[1], << >>)
         IN  [k \in 1..Len(run) |-> run[k].drawdown]

\* a[k] read as a number: undefined compares and computes like NaN
NumAt(a, k) == IF InRange(a, k) THEN a[k + 1] ELSE NaN
\* x > c and x < c for a double x: false when x is NaN; c in whole units,
\* x in ten-thousandths
NumGT(x, c) == ~x.nan /\ x.v > c * 10000
NumLT(x, c) == ~x.nan /\ x.v < c * 10000

\* a plausible slip: the risk_off thresholds are inclusive
RiskOffInclusive(vol, lev) == ~NumLT(vol, 70) \/ ~NumGT(lev, 12)

\* volatility[idx] > 70 || leverage[idx] < 12
RiskOff(vol, lev) == NumGT(vol, 70) \/ NumLT(lev, 12)

\* the label of one day (lines 440-446); leverage is a percentage counted in
\* ten-thousandths like the volatility
RiskRegimeAt(vol, lev) ==
    IF RiskOff(vol, lev) THEN "risk_off"
    ELSE IF NumLT(vol, 40) /\ NumGT(lev, 17) THEN "risk_on"
    ELSE "neutral"

\* generateRiskRegime(dailyDates, volatility, leverage)
generateRiskRegime(dates, vol, lev) ==
    [k \in 1..Len(dates) |-> RiskRegimeAt(NumAt(vol, k - 1), NumAt(lev, k - 1))]

\* volScore = Math.min(100, (vol / 100) * 100); Math.min with NaN is NaN
VolScore(vol) == IF vol.nan THEN NaN ELSE Num(Min(100 * 10000, vol.v))

\* levScore = Math.max(0, 100 - leverage[i] * 4)
LevScore(lev) == IF lev.nan THEN NaN ELSE Num(Max(0, 100 * 10000 - lev.v * 4))

\* a plausible slip: the volume score is not held at 0
VolScore2Unclamped(volume) ==
    IF volume.nan THEN NaN ELSE Num(100 * 10000 - volume.v \div 2)

\* volScore2 = Math.max(0, 100 - (volume[i] / 100) * 50)
VolScore2(volume) ==
    IF volume.nan THEN NaN ELSE Num(Max(0, 100 * 10000 - volume.v \div 2))

\* the value of one day (lines 456-461): the weighted sum, then
\* Math.max(0, Math.min(100, stress)), which hands a NaN on
StressAt(vol, lev, volume) ==
    LET volScore == VolScore(vol)
        levScore == LevScore(lev)
        volScore2 == VolScore2(volume)
    IN  IF volScore.nan \/ levScore.nan \/ volScore2.nan THEN NaN
        ELSE LET stress == (4 * volScore.v + 3 * levScore.v + 3 * volScore2.v) \div 10
             IN  Num(Max(0, Min(100 * 10000, stress)))

\* generateLiquidityStress(volatility, leverage, volume)
generateLiquidityStress(vol, lev, volume) ==
    [k \in 1..Len(vol) |-> StressAt(vol[k], NumAt(lev, k - 1), NumAt(volume, k - 1))]

-----------------------------------------------------------------------------
(* Specification SpecSeries: a constructed generator computing its series *)

MaxSeriesDays == 36    \* longest window of a generator of the series specification

\* window lengths in days: one instant, one day, and around the 30-day
\* window of generateVolatility
SeriesWindowDays == {0, 1, 30, 31, MaxSeriesDays}

\* the draws of selectRegimeType that lead to each of its branches
TypeDraws == {20, 2000, 7000}

\* the variables the series generators leave alone
seriesFixed == <<dailyDates, cachedData, etfFlows, stablecoinSupply, randomDraws,
                 events, lastEventIndex, scanIdx, missingEvents, backfillIdx,
                 regimeVars>>

\* new SyntheticGenerator(startDate, endDate) and its generateDailyDates()
InitSeries ==
    /\ startDate = 0
    /\ \E days \in SeriesWindowDays : endDate = days * DayTicks
    /\ \E r1 \in TypeDraws, r2 \in SpanDraws, r3 \in SpanDraws :
         regimes = generateRegimes(startDate, endDate, r1, r2, r3)
    /\ currentDate = 0 /\ generatedDates = << >> /\ lookup = NoLookup
    /\ dailyDates = generateDailyDates(startDate, endDate)
    /\ \E r0 \in SpanDraws, z1 \in GaussianDraws, z2 \in GaussianDraws :
         randomDraws = [start |-> r0,
                        gauss |-> [k \in 1..Len(dailyDates) |->
                                     IF k % 2 = 1 THEN z1 ELSE z2]]
    /\ cachedData = << >> /\ result = NoResult
    /\ btcPrices = << >> /\ volatility = << >> /\ leverage = << >>
    /\ etfFlows = << >> /\ stablecoinSupply = << >>
    /\ events = << >> /\ lastEventIndex = 0 /\ scanIdx = 0
    /\ missingEvents = << >> /\ backfillIdx = 0
    /\ FactoryIdle
    /\ pc = "constructed"

\* const btcPrices = this.generator.generateBTCPrice(this.dailyDates)
GenerateBTCPrice ==
    /\ pc = "constructed"
    /\ LET out == generateBTCPrice(regimes, dailyDates, randomDraws.start,
                                   randomDraws.gauss)
       IN  /\ result' = [op |-> "generateBTCPrice", out |-> out]
           /\ btcPrices' = IF out.status = "ok" THEN out.value ELSE btcPrices
           /\ pc' = IF out.status = "ok" THEN "prices" ELSE "threw"
    /\ UNCHANGED <<factoryVars, seriesFixed, volatility, leverage>>

\* const volatility = this.generator.generateVolatility(btcPrices, this.dailyDates)
GenerateVolatility ==
    /\ pc = "prices"
    /\ LET out == generateVolatility(regimes, btcPrices, dailyDates)
       IN  /\ result' = [op |-> "generateVolatility", out |-> out]
           /\ volatility' = IF out.status = "ok" THEN out.value ELSE volatility
           /\ pc' = IF out.status = "ok" THEN "volatility" ELSE "threw"
    /\ UNCHANGED <<factoryVars, seriesFixed, btcPrices, leverage>>

MaxPriceLen == 3       \* longest price series handed to generateDrawdown directly

\* price series of a direct call of generateDrawdown: every non-empty series
\* of up to MaxPriceLen of these prices
PriceInputs ==
    UNION {[1..n -> {90, 100, 110}] : n \in 1..MaxPriceLen}

\* generateDrawdown(prices): on the generated prices, as generateAllData calls
\* it, or on a series of the caller
GenerateDrawdown ==
    /\ pc = "volatility"
    /\ \E prices \in {btcPrices} \cup PriceInputs :
         result' = [op |-> "generateDrawdown", prices |-> prices,
                    out |-> generateDrawdown(prices)]
    /\ pc' = "done"
    /\ UNCHANGED <<factoryVars, seriesFixed, btcPrices, volatility, leverage>>

\* values around the thresholds of generateRiskRegime, in ten-thousandths
VolatilityLevels == <<Num(399999), Num(400000), Num(700000), Num(700001)>>
LeverageLevels == <<Num(119999), Num(120000), Num(150000), Num(170000),
                    Num(170001), Num(230000), Num(260000)>>
\* on-chain volumes around the point where the volume score reaches 0
VolumeLevels == <<Num(0), Num(500000), Num(2000000), Num(2500000)>>

\* an array of n values that runs through the levels from position off on
Cycle(levels, n, off) == [k \in 1..n |-> levels[((k + off) % Len(levels)) + 1]]

\* volatility arrays handed to the risk metrics: the one generateVolatility
\* returned, or one that runs through the threshold values
VolatilityInputs ==
    {volatility, Cycle(VolatilityLevels, Len(dailyDates), 0)}

\* leverage arrays (generateLeverageRatio gives 10 to 23 percent; a caller may
\* hand in more)
LeverageInputs ==
    {Cycle(LeverageLevels, Len(dailyDates), off) : off \in 0..(Len(LeverageLevels) - 1)}

\* const riskRegime = this.generator.generateRiskRegime(this.dailyDates,
\*                        volatility, leverageRatio)
GenerateRiskRegime ==
    /\ pc = "volatility"
    /\ \E vol \in VolatilityInputs, lev \in LeverageInputs :
         /\ leverage' = lev
         /\ result' = [op |-> "generateRiskRegime", volatility |-> vol,
                       out |-> generateRiskRegime(dailyDates, vol, lev)]
    /\ pc' = "done"
    /\ UNCHANGED <<factoryVars, seriesFixed, btcPrices, volatility>>

\* on-chain volume arrays
VolumeInputs ==
    {Cycle(VolumeLevels, Len(dailyDates), off) : off \in 0..(Len(VolumeLevels) - 1)}

\* const liquidityStress = this.generator.generateLiquidityStress(volatility,
\*                             leverageRatio, onChainVolume)
GenerateLiquidityStress ==
    /\ pc = "volatility"
    /\ \E vol \in VolatilityInputs, lev \in LeverageInputs, volume \in VolumeInputs :
         /\ leverage' = lev
         /\ result' = [op |-> "generateLiquidityStress", volatility |-> vol,
                       volume |-> volume,
                       out |-> generateLiquidityStress(vol, lev, volume)]
    /\ pc' = "done"
    /\ UNCHANGED <<factoryVars, seriesFixed, btcPrices, volatility>>

NextSeries ==
    \/ GenerateBTCPrice \/ GenerateVolatility \/ GenerateDrawdown
    \/ GenerateRiskRegime \/ GenerateLiquidityStress

SpecSeries == InitSeries /\ [][NextSeries]_vars

-----------------------------------------------------------------------------
(* Claims about the series generators (checked under SpecSeries) *)

\* generateBTCPrice has been applied to the date axis
BTCPriceCalled == result.op = "generateBTCPrice"

\* the prices are one per date, each inside the clamp, and each is the
\* clamped update of the recorded price of the day before
ClampedWalk(prices) ==
    /\ Len(prices) = Len(dailyDates)
    /\ \A k \in 1..Len(prices) : prices[k] >= 10000 /\ prices[k] <= 150000
    /\ \A k \in 1..(Len(prices) - 1) :
         prices[k + 1] = NextBTCPrice(prices[k],
                            regimes[getRegimeAtDate(regimes, dailyDates[k + 1]).index],
                            randomDraws.gauss[k + 1])

\* C11, as stated: generateBTCPrice returns exactly one price per date, every
\* price lies in [10000, 150000], and the clamp is applied to each day's price
\* before it is recorded and before the next day's update starts from it.
C11_OnePricePerDateInRange ==
    BTCPriceCalled => (result.out.status = "ok" /\ ClampedWalk(result.out.value))

\* C11, amended: the same holds for every generator whose regime list is not
\* empty (start < end) and for an empty date axis; a generator built with
\* start >= end has no regime, and generateBTCPrice over a non-empty axis then
\* throws a TypeError and returns no price.
C11_ClampedWhenRegimesExist ==
    BTCPriceCalled =>
        IF Len(regimes) > 0 \/ Len(dailyDates) = 0
        THEN result.out.status = "ok" /\ ClampedWalk(result.out.value)
        ELSE result.out.status = "TypeError"

\* C11 witness: a series over more than 30 days that reaches the floor of the
\* clamp and leaves it on the next day, starting from the clamped price.
C11_Witness ==
    /\ BTCPriceCalled /\ result.out.status = "ok"
    /\ Len(result.out.value) > 30
    /\ \E k \in 1..(Len(result.out.value) - 1) :
         result.out.value[k] = 10000 /\ result.out.value[k + 1] > 10000

\* generateDrawdown has been applied to a non-empty series of positive prices
DrawdownCalled == result.op = "generateDrawdown" /\ Len(result.prices) > 0

\* the iterations of that call: the local peak and the drawdown of each
DrawdownIterations ==
    DrawdownRun(result.prices, 0, result.prices[1], << >>)

\* C12: for every non-empty sequence of positive prices generateDrawdown
\* returns one value per price, every value is <= 0, the value is exactly 0 at
\* index 0 and at every index whose price is >= all earlier prices, and the
\* running peak never decreases.
C12_DrawdownAtMostZero ==
    DrawdownCalled =>
        LET prices == result.prices
            dd == result.out
            run == DrawdownIterations
        IN  /\ Len(dd) = Len(prices)
            /\ \A k \in 1..Len(dd) : dd[k] <= 0
            /\ dd[1] = 0
            /\ \A k \in 1..Len(dd) :
                 (\A j \in 1..(k - 1) : prices[k] >= prices[j]) => dd[k] = 0
            /\ \A k \in 1..(Len(run) - 1) : run[k + 1].peak >= run[k].peak

\* C12 witness: a series that falls below its peak (negative drawdown) and
\* later sets a new high (drawdown back to 0).
C12_Witness ==
    /\ DrawdownCalled
    /\ \E k \in 2..Len(result.out) :
         /\ result.out[k] < 0
         /\ \E m \in (k + 1)..Len(result.out) :
              result.out[m] = 0 /\ result.prices[m] > result.prices[1]

\* generateVolatility has been applied to the prices of generateBTCPrice over
\* an axis longer than 30 days
VolatilityCalled == result.op = "generateVolatility" /\ Len(dailyDates) > 30

\* C13, as stated: for every price series of generateBTCPrice over an axis
\* longer than 30 days generateVolatility returns one value per date, and
\* every value, at every index including index 30, is a defined number in
\* [0, 150].
C13_VolatilityDefinedInRange ==
    VolatilityCalled =>
        /\ result.out.status = "ok"
        /\ Len(result.out.value) = Len(dailyDates)
        /\ \A k \in 1..Len(result.out.value) :
             /\ ~result.out.value[k].nan
             /\ result.out.value[k].v >= 0
             /\ result.out.value[k].v <= 150 * 10000

\* generateRiskRegime has been applied
RiskRegimeCalled == result.op = "generateRiskRegime"

\* C14: generateRiskRegime returns one label per date, each of risk_on,
\* neutral, risk_off: risk_off when volatility > 70 or leverage < 12;
\* otherwise risk_on when volatility < 40 and leverage > 17; otherwise neutral.
C14_RiskRegimeByThresholds ==
    RiskRegimeCalled =>
        /\ Len(result.out) = Len(dailyDates)
        /\ \A k \in 1..Len(result.out) :
             LET vol == result.volatility[k]
                 lev == leverage[k]
                 off == (~vol.nan /\ vol.v > 700000) \/ (~lev.nan /\ lev.v < 120000)
                 on == (~vol.nan /\ vol.v < 400000) /\ (~lev.nan /\ lev.v > 170000)
             IN  /\ result.out[k] \in {"risk_on", "neutral", "risk_off"}
                 /\ off => result.out[k] = "risk_off"
                 /\ (~off /\ on) => result.out[k] = "risk_on"
                 /\ (~off /\ ~on) => result.out[k] = "neutral"

\* C14 witness: one call whose labels include all three values, with days
\* exactly on the thresholds (volatility 70 and 40, leverage 12 and 17)
\* labelled neutral.
C14_Witness ==
    /\ RiskRegimeCalled
    /\ {result.out[k] : k \in 1..Len(result.out)} = {"risk_on", "neutral", "risk_off"}
    /\ \E k \in 1..Len(result.out) :
         /\ result.volatility[k] = Num(700000) /\ leverage[k] = Num(120000)
         /\ result.out[k] = "neutral"
    /\ \E k \in 1..Len(result.out) :
         /\ result.volatility[k] = Num(400000) /\ leverage[k] = Num(170001)
         /\ result.out[k] = "neutral"

\* generateLiquidityStress has been applied
StressCalled == result.op = "generateLiquidityStress"

\* a number inside [0, 100]
InScoreRange(x) == ~x.nan /\ x.v >= 0 /\ x.v <= 100 * 10000

\* volatilities to compare the stress of, leverage and volume held fixed
VolatilityProbes == {Num(0), Num(399999), Num(700001), Num(1000000), Num(1500000)}

\* C15, as stated: every liquidity stress value lies in [0, 100], each of the
\* three sub-scores lies in [0, 100] before the 0.4/0.3/0.3 weighting, and the
\* value is non-decreasing in the volatility with leverage and volume fixed.
C15_StressInRangeMonotone ==
    StressCalled =>
        /\ Len(result.out) = Len(result.volatility)
        /\ \A k \in 1..Len(result.out) :
             /\ InScoreRange(result.out[k])
             /\ InScoreRange(VolScore(result.volatility[k]))
             /\ InScoreRange(LevScore(leverage[k]))
             /\ InScoreRange(VolScore2(result.volume[k]))
             /\ \A v1 \in VolatilityProbes, v2 \in VolatilityProbes :
                  v1.v <= v2.v =>
                      StressAt(v1, leverage[k], result.volume[k]).v
                          <= StressAt(v2, leverage[k], result.volume[k]).v

-----------------------------------------------------------------------------
(* Further claims about generateSyntheticEvents (checked under SpecEvents) *)

\* the rules whose full condition holds on the day the scan is about to visit
RulesHolding ==
    {k \in 1..Len(RuleIds) :
        RuleHolds(k, scanIdx, lastEventIndex, events, randomDraws[scanIdx + 1])}

\* one iteration of the scan loop
ScanStep == pc = "scan" /\ scanIdx < Len(dailyDates) /\ scanIdx' = scanIdx + 1

\* C21: on each day of the scan at most one event is emitted, and it is the
\* event of the first rule, in the fixed order of the eight rules, whose full
\* condition holds on that day; a day where some rule holds and that is not
\* skipped emits that rule's event; no event is emitted on a day below 30.
C21_FirstTrueRuleWins ==
    [][ScanStep =>
         IF SkipDay(scanIdx, lastEventIndex) \/ RulesHolding = {}
           THEN events' = events
           ELSE /\ scanIdx >= 30
                /\ Len(events') = Len(events) + 1
                /\ SubSeq(events', 1, Len(events)) = events
                /\ LET first == CHOOSE k \in RulesHolding :
                                    \A j \in RulesHolding : k <= j
                   IN  /\ events'[Len(events')].event_id = RuleIds[first]
                       /\ events'[Len(events')].date
                            = toISOString(dailyDates[scanIdx + 1])]_vars

\* C21 witness: the scan has emitted etf_inflow_surge (rule 1) on a day where
\* the condition of a later rule held as well.
C21_Witness ==
    /\ pc = "scan"
    /\ scanIdx > 0 /\ lastEventIndex = scanIdx - 1
    /\ Len(events) >= 1
    /\ events[Len(events)].event_id = "etf_inflow_surge"
    /\ \E k \in {2, 4, 5, 7, 8} :
          RuleHolds(k, lastEventIndex, lastEventIndex,
                    SubSeq(events, 1, Len(events) - 1), randomDraws[lastEventIndex + 1])

\* C22: the condition scan emits etf_inflow_surge and regulatory_shock at most
\* once each, and leverage_build_up, stablecoin_supply_jump, liquidity_drought,
\* macro_risk_off and policy_pivot_rally at most twice each; the two ids that
\* no rule names are never emitted by the scan.  forced_deleveraging has no
\* cap (the witness holds three of them).
C22_PerTypeCaps ==
    BeforeBackfill =>
        /\ CountOf(events, "etf_inflow_surge") <= 1
        /\ CountOf(events, "regulatory_shock") <= 1
        /\ \A id \in {"leverage_build_up", "stablecoin_supply_jump",
                      "liquidity_drought", "macro_risk_off", "policy_pivot_rally"} :
              CountOf(events, id) <= 2
        /\ \A k \in 1..Len(events) : events[k].event_id \in {RuleIds[r] : r \in 1..Len(RuleIds)}

\* C22 witness: a scan that has emitted forced_deleveraging three times, and
\* a capped type as often as its cap allows, with days left to visit.
C22_Witness ==
    /\ pc = "scan"
    /\ scanIdx < Len(dailyDates)
    /\ CountOf(events, "forced_deleveraging") >= 3
    /\ \E id \in {"leverage_build_up", "stablecoin_supply_jump",
                  "liquidity_drought", "macro_risk_off", "policy_pivot_rally"} :
          CountOf(events, id) = 2

\* the scan is about to visit an eligible day on which rules 1 and 2 do not
\* hold, the 30-day price change is below -15 and leverage is below 13
DeleveragingDay ==
    /\ ScanStep
    /\ ~SkipDay(scanIdx, lastEventIndex)
    /\ ~RuleHolds(1, scanIdx, lastEventIndex, events, randomDraws[scanIdx + 1])
    /\ ~RuleHolds(2, scanIdx, lastEventIndex, events, randomDraws[scanIdx + 1])
    /\ priceChangeBelow(btcPrices, scanIdx, -15)
    /\ leverage[scanIdx + 1] < 13

\* the step emits forced_deleveraging
EmitsForcedDeleveraging ==
    /\ Len(events') = Len(events) + 1
    /\ events'[Len(events')].event_id = "forced_deleveraging"

\* C23 (as stated): on such a day forced_deleveraging is emitted whenever the
\* day index minus the last-event index is at least 20, and is not emitted
\* when it is below 20.
C23_EmittedFromTwentyDays ==
    [][DeleveragingDay =>
         (EmitsForcedDeleveraging <=> scanIdx - lastEventIndex >= 20)]_vars

\* C23 (amended): on such a day forced_deleveraging is emitted exactly when
\* more than 20 days have passed since the last emitted event (day index
\* minus last-event index at least 21).
C23_EmittedAfterTwentyDays ==
    [][DeleveragingDay =>
         (EmitsForcedDeleveraging <=> scanIdx - lastEventIndex >= 21)]_vars

\* C23 witness: forced_deleveraging was emitted exactly 21 days after the
\* event before it, every day from the 15th to the 20th having been visited.
C23_Witness ==
    /\ pc = "scan"
    /\ Len(events) >= 2
    /\ lastEventIndex = scanIdx - 1
    /\ events[Len(events)].event_id = "forced_deleveraging"
    /\ DayIndexOf(events[Len(events)]) - DayIndexOf(events[Len(events) - 1]) = 21
    /\ priceChangeBelow(btcPrices, lastEventIndex - 1, -15)
    /\ leverage[lastEventIndex] < 13

\* the number of events the condition scan emitted, once the backfill runs
ScanCount == Len(events) - backfillIdx

\* C24: whenever the backfill runs, every backfilled event takes its date from
\* a valid index of the date axis (0 <= index < axis length), successive
\* backfilled events are placed at evenly spaced, strictly increasing indices
\* (multiples of axis length / slots to fill), each uses a catalog definition
\* whose id no scan-detected event carries, and no definition is used twice.
C24_BackfillIndicesValid ==
    /\ pc # "threw"
    /\ (pc = "backfill" /\ backfillIdx < Len(missingEvents)) =>
          LET ix == BackfillIndex(dailyDates, events, backfillIdx)
              def == missingEvents[backfillIdx + 1]
          IN  /\ 0 <= ix /\ ix < Len(dailyDates)
              /\ ix = (Len(dailyDates) * (backfillIdx + 1)) \div (8 - ScanCount)
              /\ backfillIdx > 0 => ix > DayIndexOf(events[Len(events)])
              /\ CountOf(events, def.event_id) = 0

-----------------------------------------------------------------------------
(* Further claims about the generator (checked under SpecGenerator) *)

\* the transition table of the claim: the kind that follows a regime of kind
\* prev for a draw r, counted in ten-thousandths
TransitionTable(prev, r) ==
    CASE prev = "bull" ->
            IF r < 1000 THEN "bear" ELSE IF r < 3000 THEN "sideways" ELSE "bull"
      [] prev = "bear" ->
            IF r < 1500 THEN "bull" ELSE IF r < 3500 THEN "sideways" ELSE "bear"
      [] prev = "sideways" ->
            IF r < 4000 THEN "bull" ELSE IF r < 7000 THEN "bear" ELSE "sideways"

\* C25: the first regime's kind is bull or bear, never sideways; the kind of
\* every later regime is the one the table gives for the previous regime's
\* kind and the draw, whatever else the list of regimes holds.
C25_TransitionTable ==
    /\ Len(regimes) >= 1 => regimes[1].type \in {"bull", "bear"}
    /\ \A r \in UniformDraws :
          IF Len(regimes) = 0
            THEN selectRegimeType(regimes, r) \in {"bull", "bear"}
            ELSE selectRegimeType(regimes, r)
                   = TransitionTable(regimes[Len(regimes)].type, r)
    /\ \A k \in 2..Len(regimes) :
          \E r \in UniformDraws :
              regimes[k].type = TransitionTable(regimes[k - 1].type, r)

\* C25 witness: a list of three regimes of three different kinds.
C25_Witness ==
    /\ Len(regimes) >= 3
    /\ Cardinality({regimes[k].type : k \in 1..3}) = 3

\* generateRegimes runs inside the constructor, synchronously: once entered,
\* the loop takes its next iteration or its exit
SpecGeneratorFair == SpecGenerator /\ WF_vars(RegimeStep \/ RegimesDone)

\* the shortest and the longest duration of a regime of a kind, in days
MinDays(type) == IF type = "bull" THEN 30 ELSE IF type = "bear" THEN 20 ELSE 15
MaxDaysOf(type) == IF type = "bull" THEN 180 ELSE IF type = "bear" THEN 90 ELSE 60

\* every regime before the last ends before the window's end, unclipped, with
\* a duration within its kind's range; the last one ends at the cursor, or at
\* the window's end when the cursor has passed it
RegimeDurationsInRange ==
    /\ \A k \in 1..(Len(regimes) - 1) :
          /\ regimes[k].end < endDate
          /\ regimes[k].end - regimes[k].start >= MinDays(regimes[k].type) * DayTicks
          /\ regimes[k].end - regimes[k].start <= MaxDaysOf(regimes[k].type) * DayTicks
    /\ Len(regimes) >= 1 =>
          regimes[Len(regimes)].end = Min(currentDate, endDate)

-----------------------------------------------------------------------------
(* SyntheticDataProvider constructor and generateAllData: the order of the *)
(* generator calls and the arrays that flow between them                   *)

\* An array returned by a generator: the generator that built it, the arrays
\* it was built from and the outcome of the Math.random() draws of that call.
\* Two calls of one generator on the same inputs return equal arrays only
\* when their draws agree.
Series(gen, inputs, draw) == [gen |-> gen, inputs |-> inputs, draw |-> draw]

\* the outcomes of the random draws of one generator call
DrawOutcomes == {"a", "b"}
\* the generators that draw from Math.random() or gaussianRandom()
RandomGenerators ==
    { "generateBTCPrice", "generateETHPrice", "generateStablecoinSupply",
      "generateOnChainVolume", "generateActiveAddresses", "generateNetworkFees",
      "generateETFFlows", "generateFuturesOI", "generateFundingRate",
      "generateLiquidations", "generateStablecoinVelocity" }

\* a generator call of generateAllData: the local it is assigned to ("" for
\* a call written as an argument), the generator and its arguments
Call(target, gen, args) == [target |-> target, gen |-> gen, args |-> args]

\* the generator calls of generateAllData in evaluation order (lines 31-65);
\* the call written as the first argument of generateStablecoinVelocity
\* (line 43) is evaluated before it and named "(argument)"
Statements ==
    << Call("btcPrices", "generateBTCPrice", <<"dailyDates">>),
       Call("ethPrices", "generateETHPrice", <<"btcPrices">>),
       Call("marketCap", "generateMarketCap", <<"btcPrices", "ethPrices">>),
       Call("volatility", "generateVolatility", <<"btcPrices", "dailyDates">>),
       Call("drawdown", "generateDrawdown", <<"btcPrices">>),
       Call("stablecoinSupply", "generateStablecoinSupply", <<"dailyDates", "marketCap">>),
       Call("stablecoinIssuance", "generateStablecoinIssuance", <<"stablecoinSupply">>),
       Call("(argument)", "generateOnChainVolume", <<"dailyDates", "volatility", "marketCap">>),
       Call("stablecoinVelocity", "generateStablecoinVelocity", <<"(argument)", "stablecoinSupply">>),
       Call("onChainVolume", "generateOnChainVolume", <<"dailyDates", "volatility", "marketCap">>),
       Call("activeAddresses", "generateActiveAddresses", <<"onChainVolume">>),
       Call("networkFees", "generateNetworkFees", <<"onChainVolume", "dailyDates">>),
       Call("etfFlows", "generateETFFlows", <<"dailyDates", "btcPrices">>),
       Call("etfCumulativeFlows", "generateCumulativeETFFlows", <<"etfFlows">>),
       Call("etfMomentum", "generateETFMomentum", <<"etfFlows">>),
       Call("futuresOI", "generateFuturesOI", <<"dailyDates", "marketCap">>),
       Call("leverageRatio", "generateLeverageRatio", <<"futuresOI", "marketCap">>),
       Call("fundingRate", "generateFundingRate", <<"dailyDates", "leverageRatio">>),
       Call("liquidations", "generateLiquidations", <<"dailyDates", "volatility", "leverageRatio">>),
       Call("riskRegime", "generateRiskRegime", <<"dailyDates", "volatility", "leverageRatio">>),
       Call("liquidityStress", "generateLiquidityStress",
            <<"volatility", "leverageRatio", "onChainVolume">>) >>

\* this.cachedData.set(key, local), lines 68-87: the local stored under each key
CacheSource ==
    [m \in CachedKeySet |->
        <<"btcPrices", "ethPrices", "marketCap", "volatility", "drawdown",
          "stablecoinSupply", "stablecoinIssuance", "stablecoinVelocity",
          "onChainVolume", "activeAddresses", "networkFees", "etfFlows",
          "etfCumulativeFlows", "etfMomentum", "futuresOI", "leverageRatio",
          "fundingRate", "liquidations", "riskRegime", "liquidityStress">>[KeyIndex(m)]]

\* the arguments of generateSyntheticEvents, lines 89-97
EventDetectorArgs ==
    <<"dailyDates", "btcPrices", "volatility", "leverageRatio", "etfFlows",
      "stablecoinSupply">>

\* the names bound during generateAllData; a name not yet assigned is Undefined
LocalNames ==
    {"dailyDates"} \cup {Statements[k].target : k \in 1..Len(Statements)}
NotAssigned == [gen |-> Undefined]

\* ---- Specification SpecConstruct: one run of the constructor ----

\* after line 24 of the constructor: the date axis is built, no local of
\* generateAllData is assigned, the cache is empty
InitConstruct ==
    /\ result = [op |-> "generateAllData", next |-> 1,
                 locals |-> [n \in LocalNames |->
                               IF n = "dailyDates"
                                 THEN Series("generateDailyDates", << >>, "a")
                                 ELSE NotAssigned],
                 calls |-> << >>]
    /\ cachedData = << >>
    /\ dailyDates = << >>
    /\ EventIdle /\ RegimeIdle /\ FactoryIdle
    /\ pc = "generateAllData"

\* one generator call of generateAllData (lines 31-65)
GenerateOne ==
    /\ pc = "generateAllData"
    /\ result.next <= Len(Statements)
    /\ LET st == Statements[result.next]
           inputs == [k \in 1..Len(st.args) |-> result.locals[st.args[k]]]
       IN  \E draw \in (IF st.gen \in RandomGenerators THEN DrawOutcomes ELSE {"a"}) :
             result' = [result EXCEPT
                          !.next = @ + 1,
                          !.locals[st.target] = Series(st.gen, inputs, draw),
                          !.calls = Append(@, st.gen)]
    /\ UNCHANGED <<factoryVars, dailyDates, cachedData, btcPrices, volatility, leverage,
                   etfFlows, stablecoinSupply, randomDraws, events, lastEventIndex,
                   scanIdx, missingEvents, backfillIdx, regimeVars, pc>>

\* the twenty this.cachedData.set calls (lines 68-87)
CacheAllData ==
    /\ pc = "generateAllData"
    /\ result.next = Len(Statements) + 1
    /\ cachedData' = [m \in CachedKeySet |-> result.locals[CacheSource[m]]]
    /\ pc' = "cached"
    /\ UNCHANGED <<factoryVars, dailyDates, result, btcPrices, volatility, leverage,
                   etfFlows, stablecoinSupply, randomDraws, events, lastEventIndex,
                   scanIdx, missingEvents, backfillIdx, regimeVars>>

\* this.events = generateSyntheticEvents(...) (lines 89-97).  The detector
\* returns a list or throws, as its input data decide (specification
\* SpecEvents); when it throws, the assignment does not happen and the
\* exception leaves generateAllData and the constructor.
GenerateEvents ==
    /\ pc = "cached"
    /\ LET inputs == [k \in 1..Len(EventDetectorArgs) |->
                        result.locals[EventDetectorArgs[k]]]
       IN  \E returns \in BOOLEAN :
             IF returns
               THEN /\ events' = <<Series("generateSyntheticEvents", inputs, "a")>>
                    /\ result' = [result EXCEPT !.calls = Append(@, "generateSyntheticEvents")]
                    /\ pc' = "constructed"
               ELSE /\ events' = events
                    /\ result' = [result EXCEPT !.calls = Append(@, "generateSyntheticEvents")]
                    /\ pc' = "threw"
    /\ UNCHANGED <<factoryVars, dailyDates, cachedData, btcPrices, volatility, leverage,
                   etfFlows, stablecoinSupply, randomDraws, lastEventIndex,
                   scanIdx, missingEvents, backfillIdx, regimeVars>>

NextConstruct == GenerateOne \/ CacheAllData \/ GenerateEvents

SpecConstruct == InitConstruct /\ [][NextConstruct]_vars

\* ---- Claims about generateAllData (checked under SpecConstruct) ----

\* how often a generator has been called
CallsOf(gen) == Cardinality({k \in 1..Len(result.calls) : result.calls[k] = gen})

\* the cache has been filled
CacheFilled == pc \in {"cached", "constructed", "threw"}

\* C27: every series is generated exactly once; each generator runs only
\* after all its inputs have been generated; every cached series that was
\* computed from another series was computed from the array the cache stores
\* for that series (stablecoin velocity, active addresses, network fee and
\* liquidity stress from the cached on-chain volume); the event detector
\* runs last, on the cached series.
C27_GeneratedOnceInDependencyOrder ==
    /\ \A k \in 1..Len(result.calls) : CallsOf(result.calls[k]) = 1
    /\ \A n \in LocalNames :
          result.locals[n] # NotAssigned =>
              \A k \in 1..Len(result.locals[n].inputs) :
                  result.locals[n].inputs[k] # NotAssigned
    /\ CacheFilled =>
          \A m \in CachedKeySet : \A k \in 1..Len(cachedData[m].inputs) :
              \A m2 \in CachedKeySet :
                  cachedData[m].inputs[k].gen = cachedData[m2].gen
                      => cachedData[m].inputs[k] = cachedData[m2]
    /\ pc = "constructed" =>
          /\ result.calls[Len(result.calls)] = "generateSyntheticEvents"
          /\ \A k \in 2..Len(EventDetectorArgs) :
                \E m \in CachedKeySet :
                    /\ CacheSource[m] = EventDetectorArgs[k]
                    /\ events[1].inputs[k] = cachedData[m]

-----------------------------------------------------------------------------
(* Further claims about the series generators (checked under SpecSeries) *)

\* C28: in generateVolatility, for every index i < 30 the output is the
\* regime-assigned volatility of that date, and for every index i >= 30 the
\* realized volatility is computed from exactly 30 log returns, each formed
\* from two prices at indices inside the price array.
C28_WindowReadsInsidePrices ==
    (result.op = "generateVolatility" /\ result.out.status = "ok") =>
        \A i \in 0..(Len(dailyDates) - 1) :
            IF i < window
              THEN result.out.value[i + 1]
                     = Num(regimes[getRegimeAtDate(regimes, dailyDates[i + 1]).index].volatility)
              ELSE /\ Len(Returns(btcPrices, i)) = 30
                   /\ \A j \in WindowStart(i)..(i - 1) :
                         /\ InRange(btcPrices, j)
                         /\ InRange(btcPrices, j - 1)

====
